---- MODULE Spec2Model ----
(***************************************************************************)
(* Listing scanner of zikys/gifts-bot (src/apps/miniapp/src/main.tsx,      *)
(* lines 27-932): dedup gate, preference matcher, alert dispatch, stream   *)
(* listener and the handleTrace pipeline.                                  *)
(*                                                                         *)
(* Time is counted in ticks.  The program's millisecond constants are      *)
(* scaled to ticks (SEEN_TTL_MS, SEEN_MAX, ...) so that expiry and         *)
(* capacity eviction happen inside the explored window; the comparisons    *)
(* (>, <, <=) are the source's.                                            *)
(***************************************************************************)
EXTENDS Integers, Sequences, FiniteSets, TLC

\* ---------------------------------------------------------------- bounds
MaxTime == 4
   \* the clock Date.now() runs over 1..MaxTime
TtlTicks == 2
   \* ticks standing for the 10 minutes of SEEN_TTL_MS
SeenCap == 2
   \* records standing for the 10,000 of SEEN_MAX
NumGateHashes == 4
   \* distinct hashes offered to the dedup gate in SpecGate

MaxDrops == 2
   \* the history counter gate.drops stops counting here

NoHash == 0
GateHashes == 1..NumGateHashes
Times == 1..MaxTime

VARIABLES
  now,        \* Date.now(), in ticks
  seen,       \* the Map seen, as the sequence of its entries in insertion order
  lastPass,   \* history: per hash, the time it was last let through (-1: never)
  capEvicted, \* history: per hash, its record was removed by capacity eviction
              \*          since it was last let through
  gate,       \* history: the last delivery at the gate and what the gate did
  mIn,        \* matcher check: the (listing, filters) pair under evaluation
  mOut,       \* matcher check: "none" before the call, then "true" or "false"
  watch,      \* WATCH_ACCOUNTS, fixed at startup
  socks,      \* the WebSocket objects not yet closed, in creation order
  timers,     \* pending setTimeout(connect, ...) timers: ticks left on each
  fails,      \* history: consecutive sockets closed without having opened
  attempts,   \* history: connect() calls so far
  handlers,   \* the handleTrace invocations that passed the dedup gate
  filtersCache,      \* filtersCache ?? null
  filtersCacheAt,    \* filtersCacheAt (0: never written)
  recentSalesCache,  \* recentSalesCache: lowercased model -> time written (0: no entry)
  passes,     \* history: per hash, how many deliveries passed the gate and
              \*          so fetched the event, when the last one did, and how
              \*          long after the one before it
  nftModelCache,     \* nftModelCache: asset -> time written (0: no entry), the
                     \*   model stored, and (history) whether the lookup succeeded
  salesPrices,       \* recentSalesCache: the prices kept with each entry
  sale,       \* the getRecentSalesForModel call followed step by step
  env,        \* the environment read at startup: whether BOT_TOKEN,
              \*   ALERT_CHAT_ID and TEST_NFT_ADDRESS are non-empty after
              \*   trim(), and whether TEST_ALERT is '1'
  proc,       \* the process: how far the module's top-level code has run,
              \*   and (history) how many Telegram sends the test alert made
  reports,    \* per hash, the backendPostSeenModel calls its handlers issued
              \*   that have not settled
  lastDrop    \* history: why the frame the last step delivered was dropped: its
              \*          defect, or "duplicate" at the dedup gate; "none" when
              \*          it was handled or the step delivered no frame

gateVars == <<lastPass, capEvicted, gate>>
matchVars == <<mIn, mOut>>
connVars == <<socks, timers, fails, attempts>>
cacheVars == <<filtersCache, filtersCacheAt, recentSalesCache>>
pipeVars == <<handlers, filtersCache, filtersCacheAt, recentSalesCache, passes,
              lastDrop>>
salesVars == <<nftModelCache, salesPrices, sale>>
bootVars == <<env, proc>>
vars == <<now, seen, lastPass, capEvicted, gate, mIn, mOut, watch, socks, timers,
          fails, attempts, handlers, filtersCache, filtersCacheAt, recentSalesCache, passes,
          nftModelCache, salesPrices, sale, env, proc, reports, lastDrop>>

\* ------------------------------------------------------------ dedup cache
SEEN_TTL_MS == TtlTicks
SEEN_MAX == SeenCap

SeenKeys(s) == {s[i].k : i \in 1..Len(s)}
SeenHas(s, h) == h \in SeenKeys(s)
SeenTs(s, h) == (CHOOSE i \in 1..Len(s) : s[i].k = h)
SeenSet(s, h, t) == Append(s, [k |-> h, ts |-> t])

\* for (const [k, ts] of seen) if (now - ts > SEEN_TTL_MS) seen.delete(k)
PurgeExpiredGE(s, t) == SelectSeq(s, LAMBDA e : ~(t - e.ts >= SEEN_TTL_MS))
PurgeExpired(s, t) == SelectSeq(s, LAMBDA e : ~(t - e.ts > SEEN_TTL_MS))

\* if (seen.size <= SEEN_MAX) return; delete the first `extra` keys in
\* iteration (insertion) order
EvictNothing(s) == s
EvictNewest(s) ==
  IF Len(s) <= SEEN_MAX THEN s ELSE SubSeq(s, 1, SEEN_MAX)
EvictOldest(s) ==
  IF Len(s) <= SEEN_MAX THEN s
  ELSE LET extra == Len(s) - SEEN_MAX IN SubSeq(s, extra + 1, Len(s))

cleanupSeen(s, t) == EvictOldest(PurgeExpired(s, t))

\* handleTrace lines 775-779: the synchronous prefix up to the first await
MarkAndCheckNoSet(s, t, h) ==
  LET c == cleanupSeen(s, t) IN
  [dropped |-> SeenHas(c, h), seen |-> c]
MarkAndCheckPromote(s, t, h) ==
  LET c == cleanupSeen(s, t) IN
  IF SeenHas(c, h)
  THEN [dropped |-> TRUE,
        seen |-> SeenSet(SelectSeq(c, LAMBDA e : e.k # h), h, t)]
  ELSE [dropped |-> FALSE, seen |-> SeenSet(c, h, t)]
MarkAndCheckStale(s, t, h) ==
  IF SeenHas(s, h) THEN [dropped |-> TRUE, seen |-> cleanupSeen(s, t)]
  ELSE [dropped |-> FALSE, seen |-> SeenSet(cleanupSeen(s, t), h, t)]
MarkAndCheck(s, t, h) ==
  LET c == cleanupSeen(s, t) IN
  IF SeenHas(c, h) THEN [dropped |-> TRUE, seen |-> c]
  ELSE [dropped |-> FALSE, seen |-> SeenSet(c, h, t)]

\* ------------------------------------------------------ numbers and names
\* A JavaScript number or its absence: a finite value, NaN, or undefined.
Num(v) == [k |-> "num", v |-> v]
NaN == [k |-> "nan", v |-> 0]
Undefined == [k |-> "undefined", v |-> 0]
\* Number.isFinite
IsFinite(x) == x.k = "num"

\* Amounts range over many orders of magnitude, so toTon is modelled on
\* numbers of one significant digit: Sci(m, e) is m * 10^e with m in 0..9.
\* For m > 0 these are ordered by exponent, then digit.
Sci(m, e) == [k |-> "num", m |-> m, e |-> e]
Gt(x, y) ==
  IF x.m = 0 THEN FALSE
  ELSE IF y.m = 0 THEN TRUE
  ELSE x.e > y.e \/ (x.e = y.e /\ x.m > y.m)
\* the literals 1_000_000 and 1e9 of toTon and toTonMaybe
MillionExp == 6
BillionExp == 9
Million == Sci(1, MillionExp)
DivBillionOffByTen(x) == IF x.m = 0 THEN x ELSE Sci(x.m, x.e - BillionExp + 1)
DivBillion(x) == IF x.m = 0 THEN x ELSE Sci(x.m, x.e - BillionExp)
\* a string holding Number(str) = n, and an object whose .value is v
StrOf(n) == [k |-> "str", n |-> n]
ObjOf(v) == [k |-> "obj", value |-> v]

\* toTon on a number or a string (the first two branches)
toTonScalarNoScale(value) ==
  IF value.k = "num" THEN value
  ELSE IF value.k = "str" THEN (IF ~IsFinite(value.n) THEN Undefined ELSE value.n)
  ELSE Undefined
toTonScalar(value) ==
  IF value.k = "num"
  THEN (IF Gt(value, Million) THEN DivBillion(value) ELSE value)
  ELSE IF value.k = "str"
  THEN (IF ~IsFinite(value.n) THEN Undefined
        ELSE IF Gt(value.n, Million) THEN DivBillion(value.n) ELSE value.n)
  ELSE Undefined
\* toTon: the third branch recurses on obj.value when that is a string or a
\* number, which ends in one of the first two branches
toTon(value) ==
  IF value.k = "obj"
  THEN (IF value.value.k \in {"num", "nan", "str"} THEN toTonScalar(value.value)
        ELSE Undefined)
  ELSE toTonScalar(value)
toTonMaybe(v) ==
  IF ~IsFinite(v) THEN v
  ELSE IF Gt(v, Million) THEN DivBillion(v) ELSE v

\* Strings are sequences of characters; toLowerCase maps each character.
Chars == {"a", "A", "b", "B"}
LowerChar(c) ==
  CASE c = "A" -> "a" [] c = "B" -> "b" [] c = "C" -> "c" [] c = "E" -> "e"
    [] c = "F" -> "f" [] c = "G" -> "g" [] c = "H" -> "h" [] c = "I" -> "i"
    [] c = "K" -> "k" [] c = "M" -> "m" [] c = "N" -> "n" [] c = "Q" -> "q"
    [] c = "P" -> "p" [] c = "R" -> "r" [] c = "S" -> "s" [] c = "T" -> "t"
    [] c = "U" -> "u" [] OTHER -> c
ToLowerCase(s) == [i \in DOMAIN s |-> LowerChar(s[i])]
NoModel == <<"?">>
   \* listing.model === undefined
NonEmptyNames == {<<"a">>, <<"A">>, <<"b">>, <<"a", "B">>, <<"A", "b">>}
ListingModels == NonEmptyNames \cup {<<>>, NoModel}

MaxPrice == 2
MaxModels == 2
Tabs == {"listing", "sale", "rent"}
PriceValues == {Num(v) : v \in 0..MaxPrice} \cup {NaN, Undefined}
BoundValues == {Num(v) : v \in 0..MaxPrice} \cup {NaN}
ModelLists == UNION {[1..n -> NonEmptyNames] : n \in 0..MaxModels}

\* ------------------------------------------------------ preference matcher
NoFilters == [tab |-> "null", minTon |-> NaN, maxTon |-> NaN, models |-> <<>>]
FilterValues == [tab : Tabs, minTon : BoundValues, maxTon : BoundValues,
                 models : ModelLists]

\* !listing.model: undefined or the empty string
ModelFalsy(m) == m = NoModel \/ m = <<>>

matchesFiltersFailClosed(listing, filters) ==
  IF filters = NoFilters THEN FALSE
  ELSE IF filters.tab # "listing" THEN FALSE
  ELSE IF ~IsFinite(listing.priceTon) THEN FALSE
  ELSE IF IsFinite(filters.minTon) /\ listing.priceTon.v < filters.minTon.v THEN FALSE
  ELSE IF IsFinite(filters.maxTon) /\ listing.priceTon.v > filters.maxTon.v THEN FALSE
  ELSE IF Len(filters.models) > 0
          /\ (\/ ModelFalsy(listing.model)
              \/ ToLowerCase(listing.model) \notin
                   {ToLowerCase(filters.models[i]) : i \in 1..Len(filters.models)})
       THEN FALSE
  ELSE TRUE
matchesFiltersCaseSensitive(listing, filters) ==
  IF filters = NoFilters THEN TRUE
  ELSE IF filters.tab # "listing" THEN FALSE
  ELSE IF ~IsFinite(listing.priceTon) THEN FALSE
  ELSE IF IsFinite(filters.minTon) /\ listing.priceTon.v < filters.minTon.v THEN FALSE
  ELSE IF IsFinite(filters.maxTon) /\ listing.priceTon.v > filters.maxTon.v THEN FALSE
  ELSE IF Len(filters.models) > 0
          /\ (\/ ModelFalsy(listing.model)
              \/ listing.model \notin
                   {filters.models[i] : i \in 1..Len(filters.models)})
       THEN FALSE
  ELSE TRUE
matchesFiltersAnyPrice(listing, filters) ==
  IF filters = NoFilters THEN TRUE
  ELSE IF filters.tab # "listing" THEN FALSE
  ELSE IF IsFinite(filters.minTon) /\ listing.priceTon.v < filters.minTon.v THEN FALSE
  ELSE IF IsFinite(filters.maxTon) /\ listing.priceTon.v > filters.maxTon.v THEN FALSE
  ELSE IF Len(filters.models) > 0
          /\ (\/ ModelFalsy(listing.model)
              \/ ToLowerCase(listing.model) \notin
                   {ToLowerCase(filters.models[i]) : i \in 1..Len(filters.models)})
       THEN FALSE
  ELSE TRUE
matchesFilters(listing, filters) ==
  IF filters = NoFilters THEN TRUE
  ELSE IF filters.tab # "listing" THEN FALSE
  ELSE IF ~IsFinite(listing.priceTon) THEN FALSE
  ELSE IF IsFinite(filters.minTon) /\ listing.priceTon.v < filters.minTon.v THEN FALSE
  ELSE IF IsFinite(filters.maxTon) /\ listing.priceTon.v > filters.maxTon.v THEN FALSE
  ELSE IF Len(filters.models) > 0
          /\ (\/ ModelFalsy(listing.model)
              \/ ToLowerCase(listing.model) \notin
                   {ToLowerCase(filters.models[i]) : i \in 1..Len(filters.models)})
       THEN FALSE
  ELSE TRUE

\* --------------------------------------------- the matcher on its own
NoInput == [listing |-> [priceTon |-> Undefined, model |-> NoModel],
            filters |-> NoFilters]
MatchInputs == [listing : [priceTon : PriceValues, model : ListingModels],
                filters : FilterValues \cup {NoFilters}]

MatchCall ==
  /\ mOut = "none"
  /\ mOut' = IF matchesFilters(mIn.listing, mIn.filters) THEN "true" ELSE "false"
  /\ UNCHANGED <<mIn, now, seen, gateVars, watch, salesVars, bootVars, reports, connVars, pipeVars>>

\* ------------------------------------------------ configuration and world
GIFTS_COLLECTION == "G"
NoAddr == "-"
   \* an absent address (undefined)
NoBackground == "-"
   \* listing.background === undefined

\* getMarketsSet: the watch accounts other than the collection itself
getMarketsSet(w) == {w[i] : i \in 1..Len(w)} \ {GIFTS_COLLECTION, ""}

\* the trace hashes delivered in Spec; EventOf gives the event of each
Hashes == {1, 2}

\* What GET /v2/events/<hash> answers when it succeeds: the event's actions,
\* each with its type, destination, asset and amount as the extractor finds
\* them.  Hash 1 carries two listings, hash 2 one listing among actions that
\* do not qualify; further hashes repeat hash 2's event.
Act(t, d, a, p) == [type |-> t, destination |-> d, nft |-> a, price |-> p]
EventOf(h) ==
  IF h = 1
  THEN <<Act("NftItemTransfer", "M1", "A1", Sci(5, 9)),
         Act("NftItemTransfer", "M1", "A2", Undefined)>>
  ELSE <<Act("TonTransfer", "M1", "A1", Sci(1, 0)),
         Act("NftItemTransfer", "X9", "A1", Sci(1, 0)),
         Act("NFT_PURCHASE", "M1", "A3", Sci(2, 10))>>

\* the characters of the action types of the world
TypeChars(t) ==
  CASE t = "NftItemTransfer" ->
         <<"N", "f", "t", "I", "t", "e", "m", "T", "r", "a", "n", "s", "f", "e", "r">>
    [] t = "NFT_PURCHASE" ->
         <<"N", "F", "T", "_", "P", "U", "R", "C", "H", "A", "S", "E">>
    [] t = "NftPurchase" ->
         <<"N", "f", "t", "P", "u", "r", "c", "h", "a", "s", "e">>
    [] t = "TonTransfer" ->
         <<"T", "o", "n", "T", "r", "a", "n", "s", "f", "e", "r">>
    [] OTHER -> <<>>
\* String.prototype.includes
Includes(str, sub) ==
  \E k \in 0..(Len(str) - Len(sub)) : SubSeq(str, k + 1, k + Len(sub)) = sub

\* type.toLowerCase().includes('nft')
TypeMentionsNftAny(t) == TRUE
TypeMentionsNft(t) == Includes(ToLowerCase(TypeChars(t)), <<"n", "f", "t">>)
\* the test for each action type of the world
ActionTypes == {"NftItemTransfer", "NFT_PURCHASE", "NftPurchase", "TonTransfer"}
MentionsNft == [t \in ActionTypes |-> TypeMentionsNft(t)]

\* MARKET_LABELS[accountId] ?? accountId, with no labels configured
labelForAccount(a) == a

\* The same number in the form the matcher compares: whole numbers below 100
\* are written Num(v).
Plain(x) == IF x.k = "num" /\ x.e \in {0, 1} THEN Num(x.m * 10^x.e) ELSE x
\* findFirstNumberLike: toTon of the amount found under the first of the keys
findFirstNumberLike(a) == toTon(a.price)

\* parseListingsFromEventActions over the actions from position i on
RECURSIVE ParseFrom(_, _, _)
ParseFrom(acts, i, markets) ==
  IF i > Len(acts) THEN <<>>
  ELSE LET a == acts[i]
           rest == ParseFrom(acts, i + 1, markets)
       IN IF /\ MentionsNft[a.type]
             /\ a.destination # NoAddr
             /\ a.destination \in markets
             /\ a.nft # NoAddr
          THEN <<[nftAddress |-> a.nft, priceTon |-> Plain(findFirstNumberLike(a)),
                  marketAccount |-> a.destination,
                  marketLabel |-> labelForAccount(a.destination),
                  model |-> NoModel, background |-> NoBackground,
                  collectionAddress |-> NoAddr, imageUrl |-> FALSE]>> \o rest
          ELSE rest
parseListingsFromEventActions(acts, w) == ParseFrom(acts, 1, getMarketsSet(w))

\* What GET /v2/nfts/<address> answers when it succeeds, as extractFromNftItem
\* reads it: model, collection address and whether an image URL is present.
NftItemOf(a) ==
  CASE a = "A1" -> [model |-> <<"A">>, background |-> "Sky",
                    collectionAddress |-> "G", imageUrl |-> TRUE]
    [] a = "A2" -> [model |-> NoModel, background |-> NoBackground,
                    collectionAddress |-> NoAddr, imageUrl |-> FALSE]
    [] a \in {"A4", "A5"} ->
                   [model |-> <<"a">>, background |-> NoBackground,
                    collectionAddress |-> "G", imageUrl |-> TRUE]
    [] OTHER    -> [model |-> <<"b">>, background |-> "Sky",
                    collectionAddress |-> "X", imageUrl |-> TRUE]

\* enrichListing: the listing itself when the fetch failed, else the listing
\* with the extracted fields spread over it ({...listing, ...extra})
enrichListingAnyway(l, ok) ==
  LET x == NftItemOf(l.nftAddress) IN
  [l EXCEPT !.model = x.model,
            !.background = x.background,
            !.collectionAddress = x.collectionAddress,
            !.imageUrl = x.imageUrl]
enrichListing(l, ok) ==
  IF ~ok THEN l
  ELSE LET x == NftItemOf(l.nftAddress) IN
       [l EXCEPT !.model = x.model,
                 !.background = x.background,
                 !.collectionAddress = x.collectionAddress,
                 !.imageUrl = x.imageUrl]

\* the lines of the caption handleTrace builds for listing l (lines 826-835),
\* sales: recentSales is a non-empty list
Caption(l, sales) ==
  {"title", "price"}
  \cup (IF ModelFalsy(l.model) THEN {} ELSE {"model"})
  \cup (IF l.background = NoBackground THEN {} ELSE {"background"})
  \cup (IF sales THEN {"recentSales"} ELSE {})

\* the collection check of handleTrace (lines 791-793): TRUE when discarded
CollectionDiscardsNever(l) == FALSE
CollectionDiscards(l) ==
  /\ GIFTS_COLLECTION # ""
  /\ l.collectionAddress # NoAddr
  /\ l.collectionAddress # GIFTS_COLLECTION

\* the filters the preference store may answer with
PipeFilters ==
  {NoFilters,
   [tab |-> "listing", minTon |-> Num(0), maxTon |-> Num(10), models |-> <<>>],
   [tab |-> "listing", minTon |-> Num(0), maxTon |-> Num(10), models |-> <<<<"a">>>>]}

LowerModels == {<<"a">>, <<"b">>}
FiltersTtlTicks == 1
   \* ticks standing for the 1 second of FILTERS_CACHE_TTL_MS
SalesTtlTicks == 2
   \* ticks standing for the 3 minutes of RECENT_SALES_CACHE_TTL_MS
FILTERS_CACHE_TTL_MS == FiltersTtlTicks
RECENT_SALES_CACHE_TTL_MS == SalesTtlTicks

\* ------------------------------------------------------- handler records
PipeMaxTime == 2
   \* in Spec the clock Date.now() runs over 1..PipeMaxTime
\* handleTrace invocations in flight at once: one for each hash, since no hash
\* passes the gate again before its handler has returned
MaxHandlers == Cardinality(Hashes)
Slots == 1..MaxHandlers

\* One sendTelegramAlert call: whether opts.photoUrl is set, and what became
\* of the photo send and of the text send ("none": not attempted).
NoCall == [img |-> FALSE, photo |-> "none", text |-> "none"]

\* What became of the listing the loop dealt with last: its index, how the
\* loop left it ("collection": discarded by the collection check, "nomatch":
\* rejected by the matcher, "sent": sendTelegramAlert returned, "threw": it
\* raised), whether its metadata fetch had succeeded, and the send call.
NoOutcome == [i |-> 0, r |-> "none", enr |-> FALSE, call |-> NoCall]

\* One handleTrace invocation: where it is suspended (pc), its hash, the loop
\* index, the filters it got (ffail: its fetch failed; fcached: it got them
\* from filtersCache without a fetch), the clock values
\* captured by backendGetFilters (fnow) and getRecentSalesForModel (snow),
\* whether the current listing's metadata fetch succeeded (enr), the send
\* call in progress, and the outcome of the previous listing.  History: the
\* outbound calls it awaits (calls), each with the loop index it was issued at.
IdleHandler ==
  [pc |-> "idle", hash |-> NoHash, idx |-> 0, calls |-> {},
   filters |-> NoFilters, ffail |-> FALSE, fcached |-> FALSE, fnow |-> 0,
   snow |-> 0,
   enr |-> FALSE, call |-> NoCall, last |-> NoOutcome]

\* ------------------------------------------- recent-sales lookup records
\* the assets that occur in the activity of the markets
SaleAssets == {"A1", "A2", "A3", "A4", "A5"}
NoEntry == [at |-> 0, model |-> NoModel, ok |-> FALSE]

\* One getRecentSalesForModel call: where it is suspended (pc), the model
\* asked for, the loop positions (market, event, action), the prices pushed,
\* the clock values captured by it (snow) and by getModelByNftAddressCached
\* (lnow), what it returned from (hit: the cache) and the list it returned.
\* History: the positions the prices were taken from, and whether every
\* fetch and lookup it relied on had succeeded (clean).
NoSale ==
  [pc |-> "idle", model |-> NoModel, mk |-> 0, ev |-> 0, ac |-> 0,
   prices |-> <<>>, from |-> <<>>, snow |-> 0, lnow |-> 0, hit |-> FALSE,
   out |-> <<>>, clean |-> TRUE]

\* ------------------------------------------------------ startup records
\* the checks of lines 214-219: BOT_TOKEN and ALERT_CHAT_ID are required
ConfigOkTokenOnly(e) == e.token
ConfigOk(e) == e.token /\ e.chat

Envs == [token : BOOLEAN, chat : BOOLEAN, test : BOOLEAN, testNft : BOOLEAN]
\* the scanner's environment in the specifications that begin after startup
ScannerEnv == [token |-> TRUE, chat |-> TRUE, test |-> FALSE, testNft |-> FALSE]

\* proc.st: "loading" while the top-level code runs, "stopped" after an error
\* thrown by it, "running" once connect() was called, "testEnrich",
\* "testPhoto" and "testText" while sendTestAlert awaits, "exited" after it
Loading == [st |-> "loading", sends |-> 0]
Running == [st |-> "running", sends |-> 0]

\* the module's top-level code has run to its end and called connect()
Booted ==
  /\ env = ScannerEnv
  /\ proc = Running

MaxReports == 1
   \* the count of one hash's outstanding seen-model reports stops here

\* ------------------------------------------------- the gate on its own
\* One delivery of hash h at the current time, with the history the dedup
\* claims are stated over.  "live" is decided from the history alone: h was
\* let through before, that was at most SEEN_TTL_MS ago, and no capacity
\* eviction, this delivery's own sweep included, has removed its record since.
\* "drops" counts the deliveries of h dropped in a row up to this one.
GateCore(h) ==
  LET r == MarkAndCheck(seen, now, h)
      afterTtl == PurgeExpired(seen, now)
      gone == SeenKeys(afterTtl) \ SeenKeys(cleanupSeen(seen, now))
      live == /\ lastPass[h] >= 0
              /\ ~(now - lastPass[h] > SEEN_TTL_MS)
              /\ ~capEvicted[h]
              /\ h \notin gone
  IN /\ seen' = r.seen
     /\ gate' = [hash |-> h, passed |-> ~r.dropped, live |-> live,
                 evicted |-> gone, before |-> seen, purged |-> afterTtl,
                 swept |-> cleanupSeen(seen, now),
                 drops |-> IF ~r.dropped THEN 0
                           ELSE IF gate.hash = h
                                THEN IF gate.drops < MaxDrops THEN gate.drops + 1
                                     ELSE MaxDrops
                           ELSE 1]
     /\ lastPass' = IF r.dropped THEN lastPass ELSE [lastPass EXCEPT ![h] = now]
     /\ capEvicted' = [x \in DOMAIN capEvicted |->
                         IF x = h /\ ~r.dropped THEN FALSE
                         ELSE capEvicted[x] \/ x \in gone]

GateStep(h) ==
  /\ GateCore(h)
  /\ UNCHANGED <<now, matchVars, watch, salesVars, bootVars, reports, connVars, pipeVars>>

GateTick ==
  /\ now < MaxTime
  /\ now' = now + 1
  /\ UNCHANGED <<seen, gateVars, matchVars, watch, salesVars, bootVars, reports, connVars, pipeVars>>

\* module state right after the declarations of main.tsx have run
FreshCaches ==
  /\ now = 1
  /\ seen = <<>>
  /\ filtersCache = NoFilters
  /\ filtersCacheAt = 0
  /\ recentSalesCache = [m \in LowerModels |-> 0]
  /\ salesPrices = [m \in LowerModels |-> <<>>]
  /\ nftModelCache = [a \in SaleAssets |-> NoEntry]
  /\ sale = NoSale
  /\ reports = [h \in Hashes |-> 0]
  /\ handlers = [s \in Slots |-> IdleHandler]
  /\ passes = [h \in Hashes |-> [n |-> 0, last |-> 0, gap |-> 0, sent |-> {},
                                 again |-> FALSE]]
  /\ lastDrop = "none"

NoHistory ==
  /\ lastPass = [h \in GateHashes |-> -1]
  /\ capEvicted = [h \in GateHashes |-> FALSE]
  /\ gate = [hash |-> NoHash, passed |-> FALSE, live |-> FALSE,
             evicted |-> {}, before |-> <<>>, purged |-> <<>>, swept |-> <<>>,
             drops |-> 0]

GateInit ==
  /\ FreshCaches
  /\ Booted
  /\ NoHistory
  /\ mIn = NoInput
  /\ mOut = "none"
  /\ watch = <<"M1">>
  /\ socks = <<>>
  /\ timers = <<>>
  /\ fails = 0
  /\ attempts = 0

GateNext ==
  \/ GateTick
  \/ \E h \in GateHashes : GateStep(h)

SpecGate == GateInit /\ [][GateNext]_vars

\* C1: the gate lets a hash through exactly when it has no live record: the
\* first delivery passes, and every later delivery is dropped for as long as
\* the record of that pass is at most SEEN_TTL_MS old and was not removed by
\* capacity eviction.
C1_PassExactlyOnce ==
  gate.hash # NoHash => (gate.passed <=> ~gate.live)

\* a redelivery inside the window was dropped, after an earlier pass
C1_Witness ==
  /\ gate.hash # NoHash
  /\ gate.live
  /\ ~gate.passed
  /\ now > lastPass[gate.hash]

MatchInit ==
  /\ mIn \in MatchInputs
  /\ mOut = "none"
  /\ FreshCaches
  /\ Booted
  /\ NoHistory
  /\ watch = <<"M1">>
  /\ socks = <<>>
  /\ timers = <<>>
  /\ fails = 0
  /\ attempts = 0

MatchNext == MatchCall

SpecMatch == MatchInit /\ [][MatchNext]_vars

\* ------------------------------------------- amount normalization on its own
MaxExp == 17
ExpBelow == 3
Digits == 0..9
SciValues == {Sci(m, e) : m \in Digits, e \in (0 - ExpBelow)..MaxExp}
RawAmounts ==
  SciValues \cup {NaN, Undefined, StrOf(NaN)}
  \cup {StrOf(x) : x \in SciValues} \cup {ObjOf(x) : x \in SciValues}
  \cup {ObjOf(Undefined), ObjOf(StrOf(Sci(5, 9))), ObjOf(ObjOf(Sci(5, 9)))}
NoTon == [done |-> FALSE, once |-> Undefined, twice |-> Undefined,
          maybe |-> Undefined]

\* toTon applied to the raw amount; then toTon and toTonMaybe applied to the
\* result, as findFirstNumberLike and getRecentSalesForModel (lines 663-665) do
TonCall ==
  /\ ~mOut.done
  /\ mOut' = [done |-> TRUE, once |-> toTon(mIn),
              twice |-> toTon(toTon(mIn)),
              maybe |-> toTonMaybe(toTon(mIn))]
  /\ UNCHANGED <<mIn, now, seen, gateVars, watch, salesVars, bootVars, reports, connVars, pipeVars>>

TonInit ==
  /\ mIn \in RawAmounts
  /\ mOut = NoTon
  /\ FreshCaches
  /\ Booted
  /\ NoHistory
  /\ watch = <<"M1">>
  /\ socks = <<>>
  /\ timers = <<>>
  /\ fails = 0
  /\ attempts = 0

TonNext == TonCall

SpecTon == TonInit /\ [][TonNext]_vars

\* the listing's model, lowercased, is a member of the lowercased model list
ModelAccepted(l, f) ==
  \E i \in 1..Len(f.models) :
     /\ l.model # NoModel
     /\ l.model # <<>>
     /\ Len(l.model) = Len(f.models[i])
     /\ \A j \in 1..Len(l.model) : LowerChar(l.model[j]) = LowerChar(f.models[i][j])

\* C3: with filters present, a finite price p and finite bounds, matchesFilters
\* is true exactly when tab is "listing", minTon <= p <= maxTon, and the model
\* list is empty or holds the listing's model up to letter case; an inverted
\* range therefore matches nothing.
C3_MatchIff ==
  LET l == mIn.listing
      f == mIn.filters
  IN (/\ mOut # "none"
      /\ f # NoFilters
      /\ IsFinite(l.priceTon) /\ IsFinite(f.minTon) /\ IsFinite(f.maxTon))
     => /\ (mOut = "true") <=> (/\ f.tab = "listing"
                                /\ f.minTon.v <= l.priceTon.v
                                /\ l.priceTon.v <= f.maxTon.v
                                /\ (Len(f.models) = 0 \/ ModelAccepted(l, f)))
        /\ (f.minTon.v > f.maxTon.v => mOut = "false")

\* a listing accepted through a model that differs from the stored one in case
C3_Witness ==
  /\ mOut = "true"
  /\ mIn.filters # NoFilters
  /\ Len(mIn.filters.models) = 2
  /\ mIn.listing.model = <<"A", "b">>
  /\ mIn.filters.models[2] = <<"a", "B">>
  /\ mIn.filters.minTon = Num(1)
  /\ mIn.filters.maxTon = Num(1)

\* C4: absent filters match every listing, whatever its price and model.
C4_AbsentMatchesAll ==
  (mOut # "none" /\ mIn.filters = NoFilters) => mOut = "true"

\* absent filters were applied to a listing with unknown price and no model
C4_Witness ==
  /\ mOut = "true"
  /\ mIn.filters = NoFilters
  /\ mIn.listing.priceTon = Undefined
  /\ mIn.listing.model = NoModel

\* ------------------------------------------------- buy links on their own
\* Market labels, as MARKET_LABELS or the account id give them
GetGemsLabel == <<"G", "e", "t", "G", "e", "m", "s">>
MrktLabel == <<"M", "R", "K", "T">>
FragmentLabel == <<"F", "r", "a", "g", "m", "e", "n", "t">>
Labels ==
  {GetGemsLabel, MrktLabel, FragmentLabel,
   <<"g", "e", "t", "g", "e", "m", "s", ".", "i", "o">>,
   <<"m", "r", "k", "t">>,
   <<"M", "R", "K", "T", " ", "G", "e", "t", "G", "e", "m", "s">>,
   <<"g", "e", "t", " ", "g", "e", "m", "s">>,
   <<"P", "o", "r", "t", "a", "l", "s">>,
   <<"E", "Q", "A">>,
   <<>>}

normalizeMarketLabelCaseSensitive(label) ==
  IF Includes(label, <<"g", "e", "t", "g", "e", "m", "s">>) THEN "getgems"
  ELSE IF Includes(label, <<"m", "r", "k", "t">>) THEN "mrkt"
  ELSE IF Includes(label, <<"f", "r", "a", "g", "m", "e", "n", "t">>)
  THEN "fragment"
  ELSE "unknown"
normalizeMarketLabel(label) ==
  LET l == ToLowerCase(label) IN
  IF Includes(l, <<"g", "e", "t", "g", "e", "m", "s">>) THEN "getgems"
  ELSE IF Includes(l, <<"m", "r", "k", "t">>) THEN "mrkt"
  ELSE IF Includes(l, <<"f", "r", "a", "g", "m", "e", "n", "t">>) THEN "fragment"
  ELSE "unknown"

\* A URL is the sequence of its pieces; a template holds "{nft}" where the
\* asset id goes, and the empty template is the unset one.
Templates ==
  {<<>>,
   <<"https://fragment.com/gift/", "{nft}">>,
   <<"https://t.me/buy?nft=", "{nft}", "&ref=", "{nft}">>}
\* template.replaceAll('{nft}', nft)
ReplaceAllNft(tpl, nft) ==
  [i \in DOMAIN tpl |-> IF tpl[i] = "{nft}" THEN nft ELSE tpl[i]]

\* buyUrlFor, with FRAGMENT_BUY_URL_TEMPLATE = tpl
buyUrlFor(listing, tpl) ==
  LET marketKind == normalizeMarketLabel(listing.marketLabel) IN
  IF marketKind = "getgems"
  THEN <<"https://getgems.io/nft/", listing.nftAddress>>
  ELSE IF marketKind = "mrkt"
  THEN <<"https://mrkt.com/item/", listing.nftAddress>>
  ELSE IF marketKind = "fragment" /\ tpl # <<>>
  THEN ReplaceAllNft(tpl, listing.nftAddress)
  ELSE <<"https://tonviewer.com/", listing.nftAddress, "?section=nft">>

UrlAssets == {"A1", "A2", "A3"}
MaxUrlCalls == 2

\* One call of buyUrlFor; mIn is the configured template, mOut the calls made
UrlCall(label, nft) ==
  /\ Len(mOut) < MaxUrlCalls
  /\ mOut' = Append(mOut, [label |-> label, nft |-> nft,
                           url |-> buyUrlFor([marketLabel |-> label,
                                              nftAddress |-> nft], mIn)])
  /\ UNCHANGED <<mIn, now, seen, gateVars, watch, salesVars, bootVars, reports,
                 connVars, pipeVars>>

UrlInit ==
  /\ mIn \in Templates
  /\ mOut = <<>>
  /\ FreshCaches
  /\ Booted
  /\ NoHistory
  /\ watch = <<"M1">>
  /\ socks = <<>>
  /\ timers = <<>>
  /\ fails = 0
  /\ attempts = 0

UrlNext == \E label \in Labels, nft \in UrlAssets : UrlCall(label, nft)

SpecUrl == UrlInit /\ [][UrlNext]_vars

\* --------------------------------------------- text escaping on its own
\* The characters of the class in the pattern of escapeMarkdownV2; the grave
\* accent is written "grave"
MarkdownReserved ==
  {"_", "-", "*", "[", "]", "(", ")", "~", "grave", ">", "#", "+", "=", "|",
   "{", "}", ".", "!", "\\"}
\* The characters of the class in the pattern of escapeMarkdownV2Url
UrlReserved == {")", "\\"}

\* s.replaceAll(/([class])/g, '\\$1') from position i on: every character of
\* the class is replaced by a backslash and itself
RECURSIVE EscapeFrom(_, _, _)
EscapeFrom(s, i, class) ==
  IF i > Len(s) THEN <<>>
  ELSE (IF s[i] \in class THEN <<"\\", s[i]>> ELSE <<s[i]>>)
         \o EscapeFrom(s, i + 1, class)

escapeMarkdownV2Url(s) == EscapeFrom(s, 1, UrlReserved)
escapeMarkdownV2(s) == EscapeFrom(s, 1, MarkdownReserved)

MaxLen == 3
EscapeChars == {"a", "_", "-", ".", ")", "\\"}
Texts == UNION {[1..n -> EscapeChars] : n \in 0..MaxLen}
NoEscape == [done |-> FALSE, text |-> <<>>, url |-> <<>>]

\* One call of each escaping function on the text mIn
EscapeCall ==
  /\ ~mOut.done
  /\ mOut' = [done |-> TRUE, text |-> escapeMarkdownV2(mIn),
              url |-> escapeMarkdownV2Url(mIn)]
  /\ UNCHANGED <<mIn, now, seen, gateVars, watch, salesVars, bootVars, reports,
                 connVars, pipeVars>>

EscapeInit ==
  /\ mIn \in Texts
  /\ mOut = NoEscape
  /\ FreshCaches
  /\ Booted
  /\ NoHistory
  /\ watch = <<"M1">>
  /\ socks = <<>>
  /\ timers = <<>>
  /\ fails = 0
  /\ attempts = 0

EscapeNext == EscapeCall

SpecEscape == EscapeInit /\ [][EscapeNext]_vars

\* ----------------------------------------------- enrichment on its own
\* The listing object passed to enrichListing, as it is after the call: the
\* function reads listing.nftAddress and spreads the listing into a new
\* object literal, and assigns to no property of it.
ArgAfterEnrichAssigned(l, ok) == enrichListing(l, ok)
ArgAfterEnrich(l, ok) == l

\* Listings as parseListingsFromEventActions and sendTestAlert build them:
\* asset, price, market label, and the market account unless it is the test
\* alert's; no metadata field is set yet.
BaseListings ==
  {[nftAddress |-> a, priceTon |-> p, marketAccount |-> m,
    marketLabel |-> IF m = NoAddr THEN "Fragment" ELSE labelForAccount(m),
    model |-> NoModel, background |-> NoBackground,
    collectionAddress |-> NoAddr, imageUrl |-> FALSE] :
     a \in {"A1", "A2", "A3", "A4"},
     p \in {Undefined, Num(1), Num(2), Num(5)},
     m \in {"M1", "M2", NoAddr}}
NoEnrich == [done |-> FALSE]

\* One call of enrichListing on mIn.listing, the metadata fetch answering or
\* not: the argument after the call, whether the result is the argument
\* itself, and the result
EnrichCall ==
  /\ ~mOut.done
  /\ mOut' = [done |-> TRUE,
              arg |-> ArgAfterEnrich(mIn.listing, mIn.ok),
              same |-> ~mIn.ok,
              ret |-> enrichListing(mIn.listing, mIn.ok)]
  /\ UNCHANGED <<mIn, now, seen, gateVars, watch, salesVars, bootVars, reports,
                 connVars, pipeVars>>

EnrichInit ==
  /\ mIn \in [listing : BaseListings, ok : BOOLEAN]
  /\ mOut = NoEnrich
  /\ FreshCaches
  /\ Booted
  /\ NoHistory
  /\ watch = <<"M1", "M2">>
  /\ socks = <<>>
  /\ timers = <<>>
  /\ fails = 0
  /\ attempts = 0

EnrichNext == EnrichCall

SpecEnrich == EnrichInit /\ [][EnrichNext]_vars

\* ------------------------------------------- the tree searches on their own
\* A JSON value: a string or a number (s holds its characters), null, an
\* object (e holds its entries in Object.entries order) or an array (e holds
\* its elements, each under the key "").  NotFound is undefined.
JStr(s) == [t |-> "str", s |-> s, e |-> <<>>]
JNum(s) == [t |-> "num", s |-> s, e |-> <<>>]
JNull == [t |-> "null", s |-> <<>>, e |-> <<>>]
JObj(es) == [t |-> "obj", s |-> <<>>, e |-> es]
JArr(vs) == [t |-> "arr", s |-> <<>>, e |-> [i \in DOMAIN vs |-> [k |-> "", v |-> vs[i]]]]
NotFound == [t |-> "undefined", s |-> <<>>, e |-> <<>>]
KV(k, v) == [k |-> k, v |-> v]

\* !node, for the values above: null, undefined and the empty string
FalsyNode(node) ==
  node.t \in {"null", "undefined"} \/ (node.t = "str" /\ node.s = <<>>)
\* key in obj, and obj[key]
HasKey(node, key) ==
  node.t = "obj" /\ \E i \in DOMAIN node.e : node.e[i].k = key
GetKey(node, key) ==
  IF HasKey(node, key)
  THEN node.e[CHOOSE i \in DOMAIN node.e : node.e[i].k = key].v
  ELSE NotFound

\* `if (found)` on a string result: undefined and the empty string fail it
FoundString(found) == found # NotFound /\ found.s # <<>>

\* findFirstStringByKeys: the loop over the candidate keys from position j,
\* the loops over elements or values from position i, and the function
RECURSIVE DirectString(_, _, _)
DirectString(node, keys, j) ==
  IF j > Len(keys) THEN NotFound
  ELSE IF GetKey(node, keys[j]).t = "str" THEN GetKey(node, keys[j])
  ELSE DirectString(node, keys, j + 1)
RECURSIVE findFirstStringByKeys(_, _)
RECURSIVE FirstStringAmong(_, _, _)
FirstStringAmong(vals, i, keys) ==
  IF i > Len(vals) THEN NotFound
  ELSE LET found == findFirstStringByKeys(vals[i].v, keys) IN
       IF FoundString(found) THEN found
       ELSE FirstStringAmong(vals, i + 1, keys)
findFirstStringByKeys(node, keys) ==
  IF FalsyNode(node) THEN NotFound
  ELSE IF node.t = "arr" THEN FirstStringAmong(node.e, 1, keys)
  ELSE IF node.t # "obj" THEN NotFound
  ELSE LET d == DirectString(node, keys, 1) IN
       IF d # NotFound THEN d ELSE FirstStringAmong(node.e, 1, keys)

\* Number(str) for the strings of the trees below
NumberOf(s) ==
  IF s = <<>> THEN Sci(0, 0)
  ELSE IF s = <<"5">> THEN Sci(5, 0)
  ELSE NaN
\* a JSON value as toTon reads it
AmountOf(node) ==
  CASE node.t = "num" -> NumberOf(node.s)
    [] node.t = "str" -> StrOf(NumberOf(node.s))
    [] node.t = "obj" ->
         LET v == GetKey(node, "value") IN
         ObjOf(CASE v.t = "num" -> NumberOf(v.s)
                 [] v.t = "str" -> StrOf(NumberOf(v.s))
                 [] OTHER -> Undefined)
    [] OTHER -> Undefined

\* findFirstNumberLike on a tree
RECURSIVE DirectNumber(_, _, _)
DirectNumber(node, keys, j) ==
  IF j > Len(keys) THEN Undefined
  ELSE IF /\ HasKey(node, keys[j])
          /\ toTon(AmountOf(GetKey(node, keys[j]))) # Undefined
  THEN toTon(AmountOf(GetKey(node, keys[j])))
  ELSE DirectNumber(node, keys, j + 1)
RECURSIVE findFirstNumberLikeIn(_, _)
RECURSIVE FirstNumberAmong(_, _, _)
FirstNumberAmong(vals, i, keys) ==
  IF i > Len(vals) THEN Undefined
  ELSE LET found == findFirstNumberLikeIn(vals[i].v, keys) IN
       IF found # Undefined THEN found
       ELSE FirstNumberAmong(vals, i + 1, keys)
findFirstNumberLikeIn(node, keys) ==
  IF FalsyNode(node) THEN Undefined
  ELSE IF node.t = "arr" THEN FirstNumberAmong(node.e, 1, keys)
  ELSE IF node.t # "obj" THEN Undefined
  ELSE LET d == DirectNumber(node, keys, 1) IN
       IF d # Undefined THEN d ELSE FirstNumberAmong(node.e, 1, keys)

\* String.prototype.startsWith
StartsWith(str, prefix) ==
  Len(str) >= Len(prefix) /\ SubSeq(str, 1, Len(prefix)) = prefix
isTonAddress(v) ==
  /\ v.t = "str"
  /\ \/ StartsWith(v.s, <<"0", ":">>)
     \/ StartsWith(v.s, <<"-", "1", ":">>)
     \/ StartsWith(v.s, <<"E", "Q">>)
     \/ StartsWith(v.s, <<"U", "Q">>)
     \/ StartsWith(v.s, <<"k", "Q">>)
extractAddressFromNode(node) ==
  IF FalsyNode(node) THEN NotFound
  ELSE IF node.t = "str" THEN (IF isTonAddress(node) THEN node ELSE NotFound)
  ELSE IF node.t \notin {"obj", "arr"} THEN NotFound
  ELSE IF isTonAddress(GetKey(node, "address")) THEN GetKey(node, "address")
  ELSE IF isTonAddress(GetKey(node, "account_id"))
  THEN GetKey(node, "account_id")
  ELSE IF isTonAddress(GetKey(node, "owner")) THEN GetKey(node, "owner")
  ELSE NotFound

\* findFirstAddressByKeys
RECURSIVE DirectAddress(_, _, _)
DirectAddress(node, keys, j) ==
  IF j > Len(keys) THEN NotFound
  ELSE IF /\ HasKey(node, keys[j])
          /\ extractAddressFromNode(GetKey(node, keys[j])) # NotFound
  THEN extractAddressFromNode(GetKey(node, keys[j]))
  ELSE DirectAddress(node, keys, j + 1)
RECURSIVE findFirstAddressByKeys(_, _)
RECURSIVE FirstAddressAmong(_, _, _)
FirstAddressAmong(vals, i, keys) ==
  IF i > Len(vals) THEN NotFound
  ELSE LET found == findFirstAddressByKeys(vals[i].v, keys) IN
       IF FoundString(found) THEN found
       ELSE FirstAddressAmong(vals, i + 1, keys)
findFirstAddressByKeys(node, keys) ==
  IF FalsyNode(node) THEN NotFound
  ELSE IF node.t = "arr" THEN FirstAddressAmong(node.e, 1, keys)
  ELSE IF node.t # "obj" THEN NotFound
  ELSE LET d == DirectAddress(node, keys, 1) IN
       IF d # NotFound THEN d ELSE FirstAddressAmong(node.e, 1, keys)

\* The trees searched: an object of up to MaxEntries entries whose values
\* are scalars, small objects or small arrays
MaxEntries == 2
TreeKeys == {"a", "b", "x"}
KeyLists == {<<"a", "b">>, <<"b", "a">>, <<"a">>}
Empty == JStr(<<>>)
Word == JStr(<<"u">>)
Address == JStr(<<"E", "Q", "x">>)
Five == JNum(<<"5">>)
Children ==
  {Empty, Word, Address, Five, JNull,
   JObj(<<>>),
   JObj(<<KV("a", Empty)>>),
   JObj(<<KV("a", Word)>>),
   JObj(<<KV("a", Address)>>),
   JObj(<<KV("a", Five)>>),
   JObj(<<KV("b", Word)>>),
   JObj(<<KV("value", Five)>>),
   JObj(<<KV("address", Address)>>),
   JArr(<<JObj(<<KV("a", Word)>>)>>),
   JArr(<<JObj(<<KV("a", Empty)>>), JObj(<<KV("a", Word)>>)>>)}
Trees ==
  {JObj(es) : es \in
     {f \in UNION {[1..n -> [k : TreeKeys, v : Children]] : n \in 0..MaxEntries} :
        \A i, j \in DOMAIN f : i # j => f[i].k # f[j].k}}
NoFind == [done |-> FALSE, str |-> NotFound, num |-> Undefined, addr |-> NotFound]

\* One call of each search on the tree and key list of mIn
FindCall ==
  /\ ~mOut.done
  /\ mOut' = [done |-> TRUE,
              str |-> findFirstStringByKeys(mIn.tree, mIn.keys),
              num |-> findFirstNumberLikeIn(mIn.tree, mIn.keys),
              addr |-> findFirstAddressByKeys(mIn.tree, mIn.keys)]
  /\ UNCHANGED <<mIn, now, seen, gateVars, watch, salesVars, bootVars, reports,
                 connVars, pipeVars>>

FindInit ==
  /\ mIn \in [tree : Trees, keys : KeyLists]
  /\ mOut = NoFind
  /\ FreshCaches
  /\ Booted
  /\ NoHistory
  /\ watch = <<"M1">>
  /\ socks = <<>>
  /\ timers = <<>>
  /\ fails = 0
  /\ attempts = 0

FindNext == FindCall

SpecFind == FindInit /\ [][FindNext]_vars

\* ---------------------------------------------------------- stream listener
ReconnectTicks == 1
   \* ticks standing for the 1000 ms of setTimeout(connect, 1000)
RECONNECT_DELAY_MS == ReconnectTicks
MaxFails == 3
   \* the history counter `fails` stops counting here
MaxPasses == 3
MaxAttempts == 3
   \* the history counter `attempts` stops counting here
MaxSocks == 2
   \* sockets, and pending timers, the listener model keeps at once
   \* the history counter passes[h].n stops counting here

Min(a, b) == IF a < b THEN a ELSE b
Without(q, i) == [j \in 1..(Len(q) - 1) |-> IF j < i THEN q[j] ELSE q[j + 1]]

\* connect(): a new WebSocket with its four handlers attached
NewSocket == [st |-> "connecting", opened |-> FALSE, sent |-> <<>>]
connect(ss) == Append(ss, NewSocket)

\* ws.on('open'): one subscribe_trace request with params WATCH_ACCOUNTS when
\* the list is not empty
SubscribeTwice(w) == IF Len(w) > 0 THEN <<w, w>> ELSE <<>>
SubscribeFirstOnly(w) == IF Len(w) > 0 THEN <<<<w[1]>>>> ELSE <<>>
SubscribeOnOpen(w) == IF Len(w) > 0 THEN <<w>> ELSE <<>>

Open(i) ==
  /\ i \in 1..Len(socks)
  /\ socks[i].st = "connecting"
  /\ socks' = [socks EXCEPT ![i] = [st |-> "open", opened |-> TRUE,
                                    sent |-> SubscribeOnOpen(watch)]]
  /\ fails' = 0
  /\ lastDrop' = "none"
  /\ UNCHANGED <<now, seen, gateVars, matchVars, watch, salesVars, bootVars, reports, timers, attempts, handlers,
                 cacheVars, passes>>

\* ws.on('error'): logs and calls ws.close(); the socket then emits 'close'
Error(i) ==
  /\ i \in 1..Len(socks)
  /\ socks[i].st \in {"connecting", "open"}
  /\ socks' = [socks EXCEPT ![i].st = "closing"]
  /\ lastDrop' = "none"
  /\ UNCHANGED <<now, seen, gateVars, matchVars, watch, salesVars, bootVars, reports, timers, fails, attempts, handlers,
                 cacheVars, passes>>

\* ws.on('close'): setTimeout(connect, 1000), whatever came before
OnCloseTwice(tm, f) == Append(Append(tm, RECONNECT_DELAY_MS), RECONNECT_DELAY_MS)
OnCloseGiveUp(tm, f) == IF f >= 2 THEN tm ELSE Append(tm, RECONNECT_DELAY_MS)
OnCloseBackoff(tm, f) == Append(tm, RECONNECT_DELAY_MS + f)
OnClose(tm, f) == Append(tm, RECONNECT_DELAY_MS)

Close(i) ==
  /\ i \in 1..Len(socks)
  /\ socks[i].st \in {"open", "closing"}
  /\ Len(timers) < MaxSocks
  /\ socks' = Without(socks, i)
  /\ timers' = OnClose(timers, fails)
  /\ fails' = IF socks[i].opened THEN 0 ELSE Min(fails + 1, MaxFails)
  /\ lastDrop' = "none"
  /\ UNCHANGED <<now, seen, gateVars, matchVars, watch, salesVars, bootVars, reports, attempts, handlers, cacheVars,
                 passes>>

\* a pending timer whose delay has run out calls connect()
TimerFire(j) ==
  /\ j \in 1..Len(timers)
  /\ timers[j] = 0
  /\ timers' = Without(timers, j)
  /\ Len(socks) < MaxSocks
  /\ socks' = connect(socks)
  /\ attempts' = Min(attempts + 1, MaxAttempts)
  /\ lastDrop' = "none"
  /\ UNCHANGED <<now, seen, gateVars, matchVars, watch, salesVars, bootVars, reports, fails, handlers, cacheVars, passes>>

\* one tick passes for the pending timers (the listener reads no clock)
ConnTick ==
  /\ \E j \in 1..Len(timers) : timers[j] > 0
  /\ timers' = [j \in 1..Len(timers) |-> IF timers[j] > 0 THEN timers[j] - 1 ELSE 0]
  /\ lastDrop' = "none"
  /\ UNCHANGED <<now, seen, gateVars, matchVars, watch, salesVars, bootVars, reports, socks, fails, attempts, handlers,
                 cacheVars, passes>>

\* ------------------------------------------------------------ inbound frames
\* A frame as ws.on('message') reads it: whether JSON.parse succeeds, msg.method,
\* params.hash (NoHash: missing or empty) and whether params.accounts is an array.
BadJson == [json |-> FALSE, method |-> "other", hash |-> NoHash, accounts |-> FALSE]
Frames ==
  {BadJson} \cup
  [json : {TRUE}, method : {"trace", "other"}, hash : Hashes \cup {NoHash},
   accounts : BOOLEAN]

\* what is wrong with a frame, by the first check it fails ("none": a
\* well-formed trace notification)
Defect(f) ==
  IF ~f.json THEN "badjson"
  ELSE IF f.method # "trace" THEN "nottrace"
  ELSE IF f.hash = NoHash THEN "nohash"
  ELSE IF ~f.accounts THEN "noaccounts"
  ELSE "none"
MalformedFrames == {f \in Frames : Defect(f) # "none"}

WellFormed(h) == [json |-> TRUE, method |-> "trace", hash |-> h, accounts |-> TRUE]

\* ws.on('message') lines 894-900: TRUE when handleTrace is called
CallsHandleTraceAnyHash(f) == f.json /\ f.method = "trace" /\ f.hash # NoHash
CallsHandleTrace(f) ==
  /\ f.json
  /\ f.method = "trace"
  /\ ~(f.hash = NoHash \/ ~f.accounts)

\* ------------------------------------------------------------- handleTrace
InFlight(hr) == hr.pc \notin {"idle", "done", "failed"}
\* an outbound call is issued and awaited; the awaited call answers
Issue(hr, kind, i) == [hr EXCEPT !.calls = @ \cup {<<kind, i>>}]
Answered(hr, kind) == [hr EXCEPT !.calls = @ \ {<<kind, hr.idx>>}]

Extracted(h) == parseListingsFromEventActions(EventOf(h), watch)
\* the listing the loop of handler hr is at, as enrichListing returned it
CurListing(hr) == enrichListing(Extracted(hr.hash)[hr.idx], hr.enr)

\* the for loop moves on to listing hr.idx + 1: the next enrichListing call
\* is issued, or handleTrace returns
NextListing(hr) ==
  IF hr.idx + 1 > Len(Extracted(hr.hash))
  THEN [hr EXCEPT !.pc = "done", !.call = NoCall, !.enr = FALSE]
  ELSE Issue([hr EXCEPT !.pc = "awaitEnrich", !.idx = hr.idx + 1,
                        !.call = NoCall, !.enr = FALSE], "enrich", hr.idx + 1)

Logged(hr, r) ==
  [hr EXCEPT !.last = [i |-> hr.idx, r |-> r, enr |-> hr.enr, call |-> hr.call]]

\* sendTelegramAlert up to its first await: sendPhoto when opts.photoUrl is
\* set, else sendMessage
SendStartDetached(hr) ==
  IF CurListing(hr).imageUrl
  THEN NextListing(Logged(Issue([hr EXCEPT !.call = [img |-> TRUE, photo |-> "pending",
                                                     text |-> "none"]],
                                "photo", hr.idx), "sent"))
  ELSE NextListing(Logged(Issue([hr EXCEPT !.call = [img |-> FALSE, photo |-> "none",
                                                     text |-> "pending"]],
                                "text", hr.idx), "sent"))
SendStart(hr) ==
  IF CurListing(hr).imageUrl
  THEN Issue([hr EXCEPT !.pc = "awaitPhoto",
                        !.call = [img |-> TRUE, photo |-> "pending", text |-> "none"]],
             "photo", hr.idx)
  ELSE Issue([hr EXCEPT !.pc = "awaitText",
                        !.call = [img |-> FALSE, photo |-> "none", text |-> "pending"]],
             "text", hr.idx)

FreeSlot == CHOOSE s \in Slots : handlers[s].pc = "idle"
                                 /\ \A r \in Slots : r < s => handlers[r].pc # "idle"

\* ws.on('message', async ...): the listener is called for each frame as it
\* arrives, whatever earlier invocations are still awaiting
StartsHandlerSerial(hs) == \A s \in Slots : hs[s].pc = "idle"
StartsHandler(hs) == \E s \in Slots : hs[s].pc = "idle"

\* a frame arrives on open socket i
OnMessage(i, f) ==
  /\ i \in 1..Len(socks)
  /\ socks[i].st = "open"
  /\ lastDrop' = IF Defect(f) # "none" THEN Defect(f)
                 ELSE IF MarkAndCheck(seen, now, f.hash).dropped THEN "duplicate"
                 ELSE "none"
  /\ IF ~CallsHandleTrace(f)
     THEN UNCHANGED <<seen, handlers>>
     ELSE LET r == MarkAndCheck(seen, now, f.hash) IN
          /\ seen' = r.seen
          /\ IF r.dropped
             THEN UNCHANGED handlers
             ELSE /\ StartsHandler(handlers)
                  /\ handlers' = [handlers EXCEPT ![FreeSlot] =
                        Issue([IdleHandler EXCEPT !.pc = "awaitEvent",
                                                  !.hash = f.hash], "event", 0)]
  /\ passes' = IF CallsHandleTrace(f) /\ ~MarkAndCheck(seen, now, f.hash).dropped
               THEN [passes EXCEPT ![f.hash] =
                       [passes[f.hash] EXCEPT
                          !.n = Min(passes[f.hash].n + 1, MaxPasses),
                          !.last = now,
                          !.gap = IF passes[f.hash].n = 0 THEN 0
                                  ELSE now - passes[f.hash].last]]
               ELSE passes
  /\ UNCHANGED <<now, gateVars, matchVars, watch, salesVars, bootVars, reports, connVars, cacheVars>>

\* backendGetFilters up to its first await, then the loop's first enrichListing
\* when the cached value is returned without a fetch
AfterEventAlwaysFetch(hr) ==
  Issue([hr EXCEPT !.pc = "awaitFilters", !.fnow = now], "filters", 0)
AfterEvent(hr) ==
  IF filtersCacheAt # 0 /\ now - filtersCacheAt < FILTERS_CACHE_TTL_MS
  THEN NextListing([hr EXCEPT !.filters = filtersCache, !.fcached = TRUE])
  ELSE Issue([hr EXCEPT !.pc = "awaitFilters", !.fnow = now], "filters", 0)

\* handleTrace lines 781-785: return when the event is null or nothing was
\* extracted, else go on to the filters
AfterEventFetchThrows(hr, ok) ==
  IF ~ok THEN [hr EXCEPT !.pc = "failed"]
  ELSE IF Len(Extracted(hr.hash)) = 0 THEN [hr EXCEPT !.pc = "done"]
  ELSE AfterEvent(hr)
AfterEventFetchGoesOn(hr, ok) ==
  IF Len(Extracted(hr.hash)) = 0 THEN [hr EXCEPT !.pc = "done"]
  ELSE AfterEvent(hr)
AfterEventFetch(hr, ok) ==
  IF ~ok \/ Len(Extracted(hr.hash)) = 0
  THEN [hr EXCEPT !.pc = "done"]
  ELSE AfterEvent(hr)

\* tonapiGetEvent answers: null on any failure, else the event
EventResp(s, ok) ==
  /\ handlers[s].pc = "awaitEvent"
  /\ handlers' = [handlers EXCEPT ![s] =
        AfterEventFetch(Answered(handlers[s], "event"), ok)]
  /\ lastDrop' = IF ok THEN "none" ELSE "eventfailed"
  /\ UNCHANGED <<now, seen, gateVars, matchVars, watch, salesVars, bootVars, reports, connVars, cacheVars, passes>>

\* the filters fetch answers: "ok" with data.filters ?? null, a non-success
\* status, or an exception; the cache is written with the time the call began
DenyAll == [tab |-> "sale", minTon |-> Num(0), maxTon |-> Num(0), models |-> <<>>]
FiltersResultFailClosed(outcome, f) == IF outcome = "ok" THEN f ELSE DenyAll
FiltersResult(outcome, f) == IF outcome = "ok" THEN f ELSE NoFilters

FiltersResp(s, outcome, f) ==
  /\ handlers[s].pc = "awaitFilters"
  /\ filtersCache' = FiltersResult(outcome, f)
  /\ filtersCacheAt' = handlers[s].fnow
  /\ handlers' = [handlers EXCEPT ![s] =
        NextListing([Answered(handlers[s], "filters") EXCEPT
                       !.filters = FiltersResult(outcome, f),
                       !.ffail = (outcome # "ok"), !.fnow = 0])]
  /\ lastDrop' = "none"
  /\ UNCHANGED <<now, seen, gateVars, matchVars, watch, salesVars, bootVars, reports, connVars, recentSalesCache,
                 passes>>

\* getRecentSalesForModel up to its first await: the cached prices when the
\* entry is fresh, else the activity fetches begin
SalesFresh(m) ==
  /\ recentSalesCache[ToLowerCase(m)] # 0
  /\ now - recentSalesCache[ToLowerCase(m)] < RECENT_SALES_CACHE_TTL_MS

\* enrichListing answers; then the collection check, the seen-model report,
\* the matcher and, for a match, the recent-sales lookup and the dispatch
AfterEnrichSalesFirst(hr) ==
  LET l == CurListing(hr) IN
  IF CollectionDiscards(l) THEN NextListing(Logged(hr, "collection"))
  ELSE IF ~ModelFalsy(l.model) /\ ~SalesFresh(l.model)
       THEN Issue([hr EXCEPT !.pc = "awaitSales", !.snow = now], "sales", hr.idx)
  ELSE IF ~matchesFilters(l, hr.filters) THEN NextListing(Logged(hr, "nomatch"))
  ELSE SendStart(hr)
AfterEnrich(hr) ==
  LET l == CurListing(hr) IN
  IF CollectionDiscards(l) THEN NextListing(Logged(hr, "collection"))
  ELSE IF ~matchesFilters(l, hr.filters) THEN NextListing(Logged(hr, "nomatch"))
  ELSE IF ~ModelFalsy(l.model) /\ ~SalesFresh(l.model)
       THEN Issue([hr EXCEPT !.pc = "awaitSales", !.snow = now], "sales", hr.idx)
  ELSE SendStart(hr)

\* history: the listings of each hash for which sendTelegramAlert was called,
\* and whether it was called again for one of them
Noted(hr) ==
  IF hr.pc \in {"awaitPhoto", "awaitText"}
  THEN [passes EXCEPT ![hr.hash].sent = @ \cup {hr.idx},
                      ![hr.hash].again = @ \/ hr.idx \in passes[hr.hash].sent]
  ELSE passes

\* backendPostSeenModel(listing.model), called without await (lines 795-797)
\* when the listing passed the collection check and has a model: TRUE when
\* the POST is issued
ReportStart(l) == ~CollectionDiscards(l) /\ ~ModelFalsy(l.model)

\* what a settled report does to a handler of the hash that issued it: the
\* function swallows a non-success status and any exception (lines 109-124),
\* and nothing awaits its promise
AfterReportRejects(hr, outcome) ==
  IF outcome = "throw" /\ InFlight(hr) THEN [hr EXCEPT !.pc = "failed"] ELSE hr
AfterReport(hr, outcome) == hr

EnrichResp(s, ok) ==
  /\ handlers[s].pc = "awaitEnrich"
  /\ LET l == CurListing([handlers[s] EXCEPT !.enr = ok])
         h == handlers[s].hash
     IN IF ReportStart(l)
        THEN reports' = [reports EXCEPT ![h] = Min(@ + 1, MaxReports)]
        ELSE UNCHANGED reports
  /\ handlers' = [handlers EXCEPT ![s] =
        AfterEnrich([Answered(handlers[s], "enrich") EXCEPT !.enr = ok])]
  /\ passes' = Noted(AfterEnrich([Answered(handlers[s], "enrich") EXCEPT !.enr = ok]))
  /\ lastDrop' = "none"
  /\ UNCHANGED <<now, seen, gateVars, matchVars, watch, salesVars, bootVars, connVars, cacheVars>>

\* the POST of a seen-model report of hash h answers, with success, with a
\* non-success status or with an exception
ReportResp(h, outcome) ==
  /\ reports[h] > 0
  /\ reports' = [reports EXCEPT ![h] = @ - 1]
  /\ handlers' = [s \in Slots |->
                    IF handlers[s].hash = h THEN AfterReport(handlers[s], outcome)
                    ELSE handlers[s]]
  /\ lastDrop' = "none"
  /\ UNCHANGED <<now, seen, gateVars, matchVars, watch, salesVars, bootVars, connVars,
                 cacheVars, passes>>

\* the recent-sales lookup completes and writes its cache entry
SalesResp(s) ==
  /\ handlers[s].pc = "awaitSales"
  /\ recentSalesCache' =
       [recentSalesCache EXCEPT ![ToLowerCase(CurListing(handlers[s]).model)] =
          handlers[s].snow]
  /\ handlers' = [handlers EXCEPT ![s] =
        SendStart([Answered(handlers[s], "sales") EXCEPT !.snow = 0])]
  /\ passes' = Noted(SendStart(Answered(handlers[s], "sales")))
  /\ lastDrop' = "none"
  /\ UNCHANGED <<now, seen, gateVars, matchVars, watch, salesVars, bootVars, reports, connVars, filtersCache,
                 filtersCacheAt>>

\* sendPhoto answers: success returns from sendTelegramAlert; a non-success
\* status or an exception is caught and sendMessage is tried
AfterPhotoNoFallback(hr, ok) ==
  NextListing(Logged([hr EXCEPT !.call.photo = IF ok THEN "ok" ELSE "failed"], "sent"))
AfterPhotoAlwaysText(hr, ok) ==
  Issue([hr EXCEPT !.pc = "awaitText", !.call.photo = IF ok THEN "ok" ELSE "failed",
                   !.call.text = "pending"], "text", hr.idx)
AfterPhoto(hr, ok) ==
  IF ok THEN NextListing(Logged([hr EXCEPT !.call.photo = "ok"], "sent"))
  ELSE Issue([hr EXCEPT !.pc = "awaitText", !.call.photo = "failed",
                        !.call.text = "pending"], "text", hr.idx)

PhotoResp(s, ok) ==
  /\ handlers[s].pc = "awaitPhoto"
  /\ handlers' = [handlers EXCEPT ![s] = AfterPhoto(Answered(handlers[s], "photo"), ok)]
  /\ lastDrop' = "none"
  /\ UNCHANGED <<now, seen, gateVars, matchVars, watch, salesVars, bootVars, reports, connVars, cacheVars, passes>>

\* sendMessage answers: success returns; a non-success status or an exception
\* leaves sendTelegramAlert as an error, which leaves handleTrace's loop and
\* is caught and logged by ws.on('message')
AfterTextSwallow(hr, ok) ==
  NextListing(Logged([hr EXCEPT !.call.text = IF ok THEN "ok" ELSE "failed"], "sent"))
AfterText(hr, ok) ==
  IF ok THEN NextListing(Logged([hr EXCEPT !.call.text = "ok"], "sent"))
  ELSE [Logged([hr EXCEPT !.call.text = "failed"], "threw") EXCEPT !.pc = "failed"]

TextResp(s, ok) ==
  /\ handlers[s].pc = "awaitText"
  /\ handlers' = [handlers EXCEPT ![s] = AfterText(Answered(handlers[s], "text"), ok)]
  /\ lastDrop' = "none"
  /\ UNCHANGED <<now, seen, gateVars, matchVars, watch, salesVars, bootVars, reports, connVars, cacheVars, passes>>

\* ws.on('message') resumes after `await handleTrace(p)`: it returns, or its
\* catch logs the error
Retire(s) ==
  /\ handlers[s].pc \in {"done", "failed"}
  /\ handlers' = [handlers EXCEPT ![s] = IdleHandler]
  /\ lastDrop' = "none"
  /\ UNCHANGED <<now, seen, gateVars, matchVars, watch, salesVars, bootVars, reports, connVars, cacheVars, passes>>

\* Date.now() moves on
Tick ==
  /\ now < PipeMaxTime
  /\ now' = now + 1
  /\ lastDrop' = "none"
  /\ UNCHANGED <<seen, gateVars, matchVars, watch, salesVars, bootVars, reports, connVars, handlers, cacheVars, passes>>

\* ---------------------------------------------------- the scanner process
Init ==
  /\ FreshCaches
  /\ Booted
  /\ NoHistory
  /\ mIn = NoInput
  /\ mOut = "none"
  /\ watch = <<"M1">>
  /\ socks = connect(<<>>)
  /\ timers = <<>>
  /\ fails = 0
  /\ attempts = 1

Next ==
  \/ Tick
  \/ Open(1)
  \/ \E f \in Frames \ MalformedFrames : OnMessage(1, f)
  \/ \E s \in Slots, ok \in BOOLEAN : EventResp(s, ok)
  \/ \E s \in Slots, o \in {"ok", "nonok", "throw"}, f \in PipeFilters :
        FiltersResp(s, o, f)
  \/ \E s \in Slots, ok \in BOOLEAN : EnrichResp(s, ok)
  \/ \E h \in Hashes, o \in {"ok", "nonok", "throw"} : ReportResp(h, o)
  \/ \E s \in Slots : SalesResp(s)
  \/ \E s \in Slots, ok \in BOOLEAN : PhotoResp(s, ok)
  \/ \E s \in Slots, ok \in BOOLEAN : TextResp(s, ok)
  \/ \E s \in Slots : Retire(s)

Spec == Init /\ [][Next]_vars

\* ------------------------------------------- the handlers within one tick
\* The same process while Date.now() stays put and the preference store
\* answers with absent filters: the handlers of the two hashes, each call of
\* which may answer, fail, or never answer.
StallNext ==
  \/ Open(1)
  \/ \E h \in Hashes : OnMessage(1, WellFormed(h))
  \/ \E s \in Slots, ok \in BOOLEAN : EventResp(s, ok)
  \/ \E s \in Slots, o \in {"ok", "throw"} : FiltersResp(s, o, NoFilters)
  \/ \E s \in Slots, ok \in BOOLEAN : EnrichResp(s, ok)
  \/ \E h \in Hashes, o \in {"ok", "nonok", "throw"} : ReportResp(h, o)
  \/ \E s \in Slots : SalesResp(s)
  \/ \E s \in Slots, ok \in BOOLEAN : PhotoResp(s, ok)
  \/ \E s \in Slots, ok \in BOOLEAN : TextResp(s, ok)
  \/ \E s \in Slots : Retire(s)

SpecStall == Init /\ [][StallNext]_vars

\* --------------------------------------- the listener over many connections
\* The same process with the socket's close, error and timer events, every
\* kind of inbound frame, and traces of hash 1; the listener reads no clock,
\* so Date.now() stays put here.
WatchConfigs == {<<>>, <<"M1">>, <<"M1", "M2">>}

ConnInit ==
  /\ FreshCaches
  /\ Booted
  /\ NoHistory
  /\ mIn = NoInput
  /\ mOut = "none"
  /\ watch \in WatchConfigs
  /\ socks = connect(<<>>)
  /\ timers = <<>>
  /\ fails = 0
  /\ attempts = 1

\* the filters the preference store may answer with while the listener runs:
\* those of the pipeline and one whose model list names another model
ConnFilters ==
  PipeFilters \cup
  {[tab |-> "listing", minTon |-> Num(0), maxTon |-> Num(10), models |-> <<<<"b">>>>]}

CloseAfterError == \E i \in 1..Len(socks) : socks[i].st = "closing" /\ Close(i)
TimerFires == \E j \in 1..MaxSocks : TimerFire(j)

ConnNext ==
  \/ \E i \in 1..MaxSocks : Open(i)
  \/ \E i \in 1..MaxSocks : Error(i)
  \/ \E i \in 1..MaxSocks : Close(i)
  \/ TimerFires
  \/ ConnTick
  \/ \E i \in 1..MaxSocks, f \in MalformedFrames \cup {WellFormed(1)} : OnMessage(i, f)
  \/ \E s \in Slots, ok \in BOOLEAN : EventResp(s, ok)
  \/ \E s \in Slots, o \in {"ok", "nonok", "throw"}, f \in ConnFilters :
        FiltersResp(s, o, f)
  \/ \E s \in Slots, ok \in BOOLEAN : EnrichResp(s, ok)
  \/ \E h \in Hashes, o \in {"ok", "nonok", "throw"} : ReportResp(h, o)
  \/ \E s \in Slots : SalesResp(s)
  \/ \E s \in Slots, ok \in BOOLEAN : PhotoResp(s, ok)
  \/ \E s \in Slots, ok \in BOOLEAN : TextResp(s, ok)
  \/ \E s \in Slots : Retire(s)

\* Timers run and fire; a socket that ws.close() was called on emits 'close'.
SpecConn ==
  /\ ConnInit
  /\ [][ConnNext]_vars
  /\ WF_vars(ConnTick)
  /\ WF_vars(TimerFires)
  /\ WF_vars(CloseAfterError)

\* ------------------------------------------------------ the process start
\* TEST_NFT_ADDRESS, when set
TestAsset == "A1"

\* The module's top-level code from line 214 on: the two required settings,
\* then sendTestAlert() when TEST_ALERT is set, else connect().  An error
\* thrown at top level ends the process; sendTestAlert throws before its
\* first await when TEST_NFT_ADDRESS is empty, which its .catch logs.
Startup ==
  /\ proc.st = "loading"
  /\ IF ~ConfigOk(env)
     THEN /\ proc' = [proc EXCEPT !.st = "stopped"]
          /\ UNCHANGED <<socks, attempts>>
     ELSE IF env.test
     THEN /\ proc' = [proc EXCEPT !.st = IF env.testNft THEN "testEnrich"
                                         ELSE "exited"]
          /\ UNCHANGED <<socks, attempts>>
     ELSE /\ proc' = [proc EXCEPT !.st = "running"]
          /\ socks' = connect(socks)
          /\ attempts' = 1
  /\ UNCHANGED <<now, seen, gateVars, matchVars, watch, salesVars, env, reports,
                 timers, fails, pipeVars>>

\* sendTestAlert: enrichListing answers, then sendTelegramAlert sends the
\* photo when the metadata gave an image, else the text
TestEnrichResp(ok) ==
  /\ proc.st = "testEnrich"
  /\ proc' = [st |-> IF ok /\ NftItemOf(TestAsset).imageUrl THEN "testPhoto"
                     ELSE "testText",
              sends |-> proc.sends + 1]
  /\ UNCHANGED <<now, seen, gateVars, matchVars, watch, salesVars, env, reports,
                 connVars, pipeVars>>

\* sendPhoto answers: process.exit(0) on success, else the text is sent
TestPhotoResp(ok) ==
  /\ proc.st = "testPhoto"
  /\ proc' = IF ok THEN [proc EXCEPT !.st = "exited"]
             ELSE [st |-> "testText", sends |-> proc.sends + 1]
  /\ UNCHANGED <<now, seen, gateVars, matchVars, watch, salesVars, env, reports,
                 connVars, pipeVars>>

\* sendMessage answers: process.exit(0), or the .catch sets the exit code
TestTextResp(ok) ==
  /\ proc.st = "testText"
  /\ proc' = [proc EXCEPT !.st = "exited"]
  /\ UNCHANGED <<now, seen, gateVars, matchVars, watch, salesVars, env, reports,
                 connVars, pipeVars>>

StartInit ==
  /\ FreshCaches
  /\ NoHistory
  /\ env \in Envs
  /\ proc = Loading
  /\ mIn = NoInput
  /\ mOut = "none"
  /\ watch \in WatchConfigs
  /\ socks = <<>>
  /\ timers = <<>>
  /\ fails = 0
  /\ attempts = 0

StartNext ==
  \/ Startup
  \/ \E ok \in BOOLEAN : TestEnrichResp(ok)
  \/ \E ok \in BOOLEAN : TestPhotoResp(ok)
  \/ \E ok \in BOOLEAN : TestTextResp(ok)
  \/ ConnNext

SpecStart == StartInit /\ [][StartNext]_vars

\* ------------------------------------------- the recent-sales lookup on its own
NftTtlTicks == 2
   \* ticks standing for the 10 minutes of NFT_MODEL_CACHE_TTL_MS
NFT_MODEL_CACHE_TTL_MS == NftTtlTicks
RECENT_SALES_MAX == 3
SalesMaxTime == 3
   \* in SpecSales the clock Date.now() runs over 1..SalesMaxTime

\* Array.from(getMarketsSet()): the markets in the order of WATCH_ACCOUNTS
MarketList(w) == SelectSeq(w, LAMBDA a : a \in getMarketsSet(w))

\* What GET /v2/accounts/<account>/events answers when it succeeds: the events
\* of the account, each with its actions.  For the models "A" / "a" five sales
\* qualify: of A1 and A4 at M1, of A5, A1 and A4 at M2.
ActivityOf(account) ==
  CASE account = "M1" ->
         << <<Act("NftPurchase", NoAddr, "A1", Sci(7, 9)),
              Act("NftItemTransfer", NoAddr, "A4", Sci(9, 9)),
              Act("NftPurchase", NoAddr, NoAddr, Sci(9, 9))>>,
            <<Act("NFT_PURCHASE", NoAddr, "A3", Sci(4, 9)),
              Act("NftPurchase", NoAddr, "A2", Sci(4, 9)),
              Act("NftPurchase", NoAddr, "A4", Sci(3, 0))>> >>
    [] account = "M2" ->
         << <<Act("NftPurchase", NoAddr, "A5", Undefined),
              Act("NftPurchase", NoAddr, "A5", Sci(0, 0)),
              Act("NFT_PURCHASE", NoAddr, "A5", StrOf(Sci(6, 9)))>>,
            <<Act("NftPurchase", NoAddr, "A1", Sci(8, 9)),
              Act("NftPurchase", NoAddr, "A4", Sci(2, 9))>> >>
    [] OTHER -> <<>>

\* type.includes('purchase') || type.includes('nftpurchase'), on the
\* lower-cased type
TypeMentionsPurchase(t) ==
  \/ Includes(ToLowerCase(TypeChars(t)), <<"p", "u", "r", "c", "h", "a", "s", "e">>)
  \/ Includes(ToLowerCase(TypeChars(t)),
              <<"n", "f", "t", "p", "u", "r", "c", "h", "a", "s", "e">>)
MentionsPurchase == [t \in ActionTypes |-> TypeMentionsPurchase(t)]

SaleMarkets == MarketList(watch)
SaleEvents(c) == ActivityOf(SaleMarkets[c.mk])
SaleAct(c) == SaleEvents(c)[c.ev][c.ac]

\* prices.length >= RECENT_SALES_MAX, the test at the head of each loop
CapReachedNever(prices) == FALSE
CapReached(prices) == Len(prices) >= RECENT_SALES_MAX

\* the end of the function: prices.slice(0, RECENT_SALES_MAX)
Finish(c) ==
  [c EXCEPT !.pc = "done",
            !.out = SubSeq(c.prices, 1, Min(Len(c.prices), RECENT_SALES_MAX))]

\* the market loop moves on: break when the cap is reached or no market is
\* left, else the activity fetch of the next market is issued
NextMarket(c) ==
  IF CapReached(c.prices) \/ c.mk + 1 > Len(SaleMarkets) THEN Finish(c)
  ELSE [c EXCEPT !.pc = "awaitEvents", !.mk = c.mk + 1, !.ev = 1, !.ac = 1]

\* the action loop body from the model found for the action's asset on:
\* lines 659-667, then the next action
AfterModel(c, model, ok) ==
  LET rawAmount == findFirstNumberLike(SaleAct(c))
      ton == toTonMaybe(rawAmount)
      accept == /\ ~ModelFalsy(model)
                /\ ToLowerCase(model) = ToLowerCase(c.model)
                /\ rawAmount # Undefined
                /\ IsFinite(ton)
                /\ Gt(ton, Sci(0, 0))
  IN [c EXCEPT !.prices = IF accept THEN Append(@, ton) ELSE @,
               !.from = IF accept THEN Append(@, <<c.mk, c.ev, c.ac>>) ELSE @,
               !.ac = c.ac + 1,
               !.clean = c.clean /\ ok]

\* getModelByNftAddressCached up to its await: the entry is returned when it
\* is younger than the TTL
ModelCachedNoTtl(cache, a) == cache[a].at # 0
ModelCached(cache, a) ==
  /\ cache[a].at # 0
  /\ now - cache[a].at < NFT_MODEL_CACHE_TTL_MS

\* the loops from position (c.mk, c.ev, c.ac) on, up to the next await (an
\* asset lookup, or the activity fetch of the next market) or the end
RECURSIVE Scan(_, _)
Scan(c, cache) ==
  IF CapReached(c.prices) THEN Finish(c)
  ELSE IF c.ev > Len(SaleEvents(c)) THEN NextMarket(c)
  ELSE IF c.ac > Len(SaleEvents(c)[c.ev])
       THEN Scan([c EXCEPT !.ev = c.ev + 1, !.ac = 1], cache)
  ELSE LET a == SaleAct(c) IN
       IF ~MentionsPurchase[a.type] \/ a.nft = NoAddr
       THEN Scan([c EXCEPT !.ac = c.ac + 1], cache)
       ELSE IF ModelCached(cache, a.nft)
       THEN Scan(AfterModel(c, cache[a.nft].model, cache[a.nft].ok), cache)
       ELSE [c EXCEPT !.pc = "awaitNft", !.lnow = now]

\* recentSalesCache.set at the end of a call that did not return from the cache
WriteBack(c) ==
  IF c.pc = "done" /\ ~c.hit
  THEN /\ recentSalesCache' =
            [recentSalesCache EXCEPT ![ToLowerCase(c.model)] = c.snow]
       /\ salesPrices' = [salesPrices EXCEPT ![ToLowerCase(c.model)] = c.out]
  ELSE UNCHANGED <<recentSalesCache, salesPrices>>

\* getRecentSalesForModel(m) is called: the cached prices, or the first fetch
SalesStart(m) ==
  /\ sale.pc \in {"idle", "done"}
  /\ sale' = IF SalesFresh(m)
             THEN [NoSale EXCEPT !.pc = "done", !.model = m, !.hit = TRUE,
                                 !.out = salesPrices[ToLowerCase(m)]]
             ELSE NextMarket([NoSale EXCEPT !.model = m, !.snow = now])
  /\ WriteBack(sale')
  /\ UNCHANGED <<now, seen, gateVars, matchVars, watch, connVars, handlers,
                 filtersCache, filtersCacheAt, passes, nftModelCache, bootVars,
                 reports, lastDrop>>

\* tonapiGetAccountEvents answers: null on any failure, else the events
ActivityResp(ok) ==
  /\ sale.pc = "awaitEvents"
  /\ sale' = IF ok THEN Scan(sale, nftModelCache)
             ELSE NextMarket([sale EXCEPT !.clean = FALSE])
  /\ WriteBack(sale')
  /\ UNCHANGED <<now, seen, gateVars, matchVars, watch, connVars, handlers,
                 filtersCache, filtersCacheAt, passes, nftModelCache, bootVars,
                 reports, lastDrop>>

\* getModelByNftAddressCached after its await (lines 612-616): the model is
\* extracted from what tonapiGetNftItemByAddress answered, null on any failure,
\* and stored with the time the call began
StoreModel(cache, a, t, ok) ==
  [cache EXCEPT ![a] = [at |-> t,
                        model |-> IF ok THEN NftItemOf(a).model ELSE NoModel,
                        ok |-> ok]]

NftResp(ok) ==
  /\ sale.pc = "awaitNft"
  /\ LET a == SaleAct(sale).nft
         cache == StoreModel(nftModelCache, a, sale.lnow, ok)
     IN /\ nftModelCache' = cache
        /\ sale' = Scan(AfterModel(sale, cache[a].model, ok), cache)
  /\ WriteBack(sale')
  /\ UNCHANGED <<now, seen, gateVars, matchVars, watch, connVars, handlers,
                 filtersCache, filtersCacheAt, passes, bootVars, reports, lastDrop>>

SalesTick ==
  /\ now < SalesMaxTime
  /\ now' = now + 1
  /\ UNCHANGED <<seen, gateVars, matchVars, watch, connVars, pipeVars, salesVars, bootVars, reports>>

SalesInit ==
  /\ FreshCaches
  /\ Booted
  /\ NoHistory
  /\ mIn = NoInput
  /\ mOut = "none"
  /\ watch = <<"M1", "G", "M2">>
  /\ socks = <<>>
  /\ timers = <<>>
  /\ fails = 0
  /\ attempts = 0

SalesNext ==
  \/ SalesTick
  \/ \E m \in {<<"A">>, <<"a">>} : SalesStart(m)
  \/ \E ok \in BOOLEAN : ActivityResp(ok)
  \/ \E ok \in BOOLEAN : NftResp(ok)

SpecSales == SalesInit /\ [][SalesNext]_vars

\* ------------------------------------------- the asset lookup on its own
\* One getModelByNftAddressCached call, kept in the variable sale: where it
\* is suspended, the asset, the clock value it captured, and what it
\* returned.  History: whether it returned from the cache (hit), the entry
\* it found (was) and the lookups it issued (calls).
NoLookup ==
  [pc |-> "idle", a |-> NoAddr, lnow |-> 0, ret |-> NoModel, hit |-> FALSE,
   was |-> NoEntry, calls |-> 0]
LookupAssets == {"A1", "A2", "A3"}

\* getModelByNftAddressCached(a) is called: lines 608-610, then the await
\* of tonapiGetNftItemByAddress
LookupStart(a) ==
  /\ sale.pc \in {"idle", "done"}
  /\ sale' = IF ModelCached(nftModelCache, a)
             THEN [NoLookup EXCEPT !.pc = "done", !.a = a, !.lnow = now,
                                   !.ret = nftModelCache[a].model,
                                   !.hit = TRUE, !.was = nftModelCache[a]]
             ELSE [NoLookup EXCEPT !.pc = "awaitNft", !.a = a, !.lnow = now,
                                   !.was = nftModelCache[a], !.calls = 1]
  /\ UNCHANGED <<now, seen, gateVars, matchVars, watch, connVars, handlers,
                 filtersCache, filtersCacheAt, passes, nftModelCache,
                 recentSalesCache, salesPrices, bootVars, reports, lastDrop>>

\* tonapiGetNftItemByAddress answers, null on any failure: lines 612-616
LookupResp(ok) ==
  /\ sale.pc = "awaitNft"
  /\ nftModelCache' = StoreModel(nftModelCache, sale.a, sale.lnow, ok)
  /\ sale' = [sale EXCEPT !.pc = "done", !.ret = nftModelCache'[sale.a].model]
  /\ UNCHANGED <<now, seen, gateVars, matchVars, watch, connVars, handlers,
                 filtersCache, filtersCacheAt, passes, recentSalesCache,
                 salesPrices, bootVars, reports, lastDrop>>

LookupInit ==
  /\ FreshCaches
  /\ Booted
  /\ NoHistory
  /\ mIn = NoInput
  /\ mOut = "none"
  /\ watch = <<"M1">>
  /\ socks = <<>>
  /\ timers = <<>>
  /\ fails = 0
  /\ attempts = 0

LookupNext ==
  \/ SalesTick
  \/ \E a \in LookupAssets : LookupStart(a)
  \/ \E ok \in BOOLEAN : LookupResp(ok)

SpecLookup == LookupInit /\ [][LookupNext]_vars

\* ------------------------------------- the gate and the event fetch behind it
\* handleTrace up to the end of its event fetch, for one observed hash among
\* the hashes that share the dedup cache.  The record below follows the fetch
\* of ObservedHash: "re" tells what the gate did with the last delivery of that
\* hash that came after a failed fetch and at most SEEN_TTL_MS after the pass
\* that started it.
NumRefetchHashes == 3
   \* distinct hashes delivered in SpecRefetch
RefetchHashes == 1..NumRefetchHashes
ObservedHash == CHOOSE h \in RefetchHashes : \A g \in RefetchHashes : h <= g

NoFetch == [pc |-> "none", at |-> 0, re |-> "none"]

\* const event = await tonapiGetEvent(hash); if (!event) return;
\* the handler ends and the record written before the await stays
SeenAfterFetchRetry(s, h, ok) ==
  IF ok THEN s ELSE SelectSeq(s, LAMBDA e : e.k # h)
SeenAfterFetch(s, h, ok) == s

RefetchDeliver(h) ==
  LET r == MarkAndCheck(seen, now, h)
      gone == SeenKeys(PurgeExpired(seen, now)) \ SeenKeys(cleanupSeen(seen, now))
      inWindow == sale.pc = "failed" /\ ~(now - sale.at > SEEN_TTL_MS)
      kept == ~capEvicted[h] /\ h \notin gone
  IN /\ GateCore(h)
     /\ sale' = IF h # ObservedHash THEN sale
                ELSE IF r.dropped
                     THEN [sale EXCEPT !.re = IF inWindow THEN "dropped" ELSE @]
                     ELSE [pc |-> "await", at |-> now,
                           re |-> IF ~inWindow THEN sale.re
                                  ELSE IF kept THEN "refetched"
                                  ELSE "refetchedAfterEviction"]
     /\ UNCHANGED <<now, matchVars, watch, nftModelCache, salesPrices, bootVars,
                    reports, connVars, pipeVars>>

RefetchResp(ok) ==
  /\ sale.pc = "await"
  /\ seen' = SeenAfterFetch(seen, ObservedHash, ok)
  /\ sale' = [sale EXCEPT !.pc = IF ok THEN "fetched" ELSE "failed"]
  /\ UNCHANGED <<now, gateVars, matchVars, watch, nftModelCache, salesPrices,
                 bootVars, reports, connVars, pipeVars>>

RefetchInit ==
  /\ now = 1
  /\ seen = <<>>
  /\ filtersCache = NoFilters
  /\ filtersCacheAt = 0
  /\ recentSalesCache = [m \in LowerModels |-> 0]
  /\ salesPrices = [m \in LowerModels |-> <<>>]
  /\ nftModelCache = [a \in SaleAssets |-> NoEntry]
  /\ sale = NoFetch
  /\ reports = [h \in Hashes |-> 0]
  /\ handlers = [s \in Slots |-> IdleHandler]
  /\ passes = [h \in Hashes |-> [n |-> 0, last |-> 0, gap |-> 0, sent |-> {},
                                 again |-> FALSE]]
  /\ lastDrop = "none"
  /\ Booted
  /\ NoHistory
  /\ mIn = NoInput
  /\ mOut = "none"
  /\ watch = <<"M1">>
  /\ socks = <<>>
  /\ timers = <<>>
  /\ fails = 0
  /\ attempts = 0

RefetchNext ==
  \/ GateTick
  \/ \E h \in RefetchHashes : RefetchDeliver(h)
  \/ \E ok \in BOOLEAN : RefetchResp(ok)

SpecRefetch == RefetchInit /\ [][RefetchNext]_vars

\* ---------------------------------------------------- the preference store
\* The backend of apps/backend/src/index.ts (kept in files) and its copy at the
\* end of main.tsx (kept in MongoDB): the same handlers over one record of
\* filters per user key and one set of model names.
ModelsCap == 2
   \* names standing for the 500 of models.slice(0, 500)

JsNull == [k |-> "null", v |-> 0]
Text(s) == [k |-> "chars", s |-> s]
ArrayOf(e) == [k |-> "arr", e |-> e]
\* a JSON object with the four fields as given (Undefined: the field is absent)
FiltersBody(t, lo, hi, ms) ==
  [k |-> "obj", tab |-> t, minTon |-> lo, maxTon |-> hi, models |-> ms]

\* String.prototype.trim
RECURSIVE TrimLeft(_)
TrimLeft(s) == IF s # <<>> /\ Head(s) = " " THEN TrimLeft(Tail(s)) ELSE s
RECURSIVE TrimRight(_)
TrimRight(s) ==
  IF s # <<>> /\ s[Len(s)] = " " THEN TrimRight(SubSeq(s, 1, Len(s) - 1)) ELSE s
Trim(s) == TrimRight(TrimLeft(s))

\* String(v ?? '').toLowerCase(), then 'sale', 'rent' or else 'listing'
normalizeTab(v) ==
  LET s == IF v.k = "chars" THEN ToLowerCase(v.s) ELSE <<>> IN
  IF s = <<"s", "a", "l", "e">> THEN "sale"
  ELSE IF s = <<"r", "e", "n", "t">> THEN "rent"
  ELSE "listing"

\* typeof v === 'number' ? v : Number(v), and def unless that is finite;
\* Number(null) is 0, Number(undefined) is NaN
asNumber(v, def) ==
  IF v.k = "num" THEN v.v
  ELSE IF v.k = "str" THEN (IF IsFinite(v.n) THEN v.n.v ELSE def)
  ELSE IF v.k = "null" THEN 0
  ELSE def

Max(a, b) == IF a > b THEN a ELSE b

\* modelsRaw.map((m) => String(m).trim()).filter(Boolean).slice(0, 500)
normalizeModels(ms) ==
  LET raw == IF ms.k = "arr" THEN ms.e ELSE <<>>
      trimmed == [i \in DOMAIN raw |-> Trim(raw[i])]
      kept == SelectSeq(trimmed, LAMBDA m : m # <<>>)
  IN SubSeq(kept, 1, Min(Len(kept), ModelsCap))

normalizeFiltersAsGiven(input) ==
  LET obj == IF input.k = "obj" THEN input
             ELSE FiltersBody(Undefined, Undefined, Undefined, Undefined)
      raw == IF obj.models.k = "arr" THEN obj.models.e ELSE <<>>
  IN [tab |-> normalizeTab(obj.tab),
      minTon |-> Num(asNumber(obj.minTon, 0)),
      maxTon |-> Num(asNumber(obj.maxTon, 5000)),
      models |-> SubSeq(raw, 1, Min(Len(raw), ModelsCap))]
normalizeFilters(input) ==
  LET obj == IF input.k = "obj" THEN input
             ELSE FiltersBody(Undefined, Undefined, Undefined, Undefined)
  IN [tab |-> normalizeTab(obj.tab),
      minTon |-> Num(Max(0, asNumber(obj.minTon, 0))),
      maxTon |-> Num(Max(0, asNumber(obj.maxTon, 5000))),
      models |-> normalizeModels(obj.models)]

\* The backend's configuration: whether BACKEND_TOKEN and TELEGRAM_BOT_TOKEN
\* are set.
BackendConfigs == [token : BOOLEAN, bot : BOOLEAN]

\* A request as the handlers read it.  init: the x-telegram-init-data header,
\* by what verification makes of it under the configured bot token ("none":
\* absent or blank; "throws": a hash that is not 64 hex digits, or a malformed
\* percent escape; "bad": a hash that does not match; "ok": a hash that
\* matches, with the user id of the data, "" when it has none).  auth: the
\* authorization header, "right" when it is "Bearer <BACKEND_TOKEN>"; any
\* other header compares unequal as the absent one does.  key: the userKey
\* of the query or body.
InitNone == [v |-> "none", id |-> ""]
InitDatas ==
  {InitNone, [v |-> "throws", id |-> ""], [v |-> "bad", id |-> ""]}
  \cup [v : {"ok"}, id : {"", "7"}]
Auths == {"none", "right"}
SuppliedKeys == {"missing", "7", "8"}
UserKeys == {"default", "7", "8"}

\* if (!BACKEND_TOKEN) return true; auth === `Bearer ${BACKEND_TOKEN}`
requireToken(cfg, auth) == ~cfg.token \/ auth = "right"

\* verifyTelegramInitData: { ok, userId }, or an exception out of
\* decodeURIComponent or crypto.timingSafeEqual
verifyTelegramInitData(cfg, init) ==
  IF ~cfg.bot THEN [ok |-> FALSE, userId |-> "", threw |-> FALSE]
  ELSE IF init.v = "throws" THEN [ok |-> FALSE, userId |-> "", threw |-> TRUE]
  ELSE IF init.v = "bad" THEN [ok |-> FALSE, userId |-> "", threw |-> FALSE]
  ELSE [ok |-> TRUE, userId |-> init.id, threw |-> FALSE]
\* initData ? verifyTelegramInitData(initData) : { ok: false }
Verified(cfg, init) ==
  IF init.v = "none" THEN [ok |-> FALSE, userId |-> "", threw |-> FALSE]
  ELSE verifyTelegramInitData(cfg, init)

\* verified.userId ? verified.userId : String(supplied ?? 'default')
UserKeySuppliedFirst(ver, key) ==
  IF key # "missing" THEN key
  ELSE IF ver.userId # "" THEN ver.userId ELSE "default"
UserKeyOf(ver, key) ==
  IF ver.userId # "" THEN ver.userId
  ELSE IF key = "missing" THEN "default" ELSE key

EmptyStore == [filters |-> [u \in UserKeys |-> NoFilters], models |-> {}]
Reply(code, ok, key, f, st) ==
  [status |-> code, ok |-> ok, userKey |-> key, filters |-> f, store |-> st]

\* app.get('/api/filters'): an exception thrown by the handler is answered
\* with 500; without authorization the file variant answers { ok: false }
\* with 200, the MongoDB variant with 401
GetFilters(cfg, st, req, mongo) ==
  LET ver == Verified(cfg, req.init)
      userKey == UserKeyOf(ver, req.key)
  IN IF ver.threw THEN Reply(500, FALSE, "", NoFilters, st)
     ELSE IF ~ver.ok /\ ~requireToken(cfg, req.auth)
          THEN Reply(IF mongo THEN 401 ELSE 200, FALSE, "", NoFilters, st)
     ELSE Reply(200, TRUE, userKey, st.filters[userKey], st)

\* app.put('/api/filters')
PutFilters(cfg, st, req) ==
  LET ver == Verified(cfg, req.init)
      userKey == UserKeyOf(ver, req.key)
      next == normalizeFilters(req.filters)
  IN IF ver.threw THEN Reply(500, FALSE, "", NoFilters, st)
     ELSE IF ~ver.ok /\ ~requireToken(cfg, req.auth)
          THEN Reply(401, FALSE, "", NoFilters, st)
     ELSE Reply(200, TRUE, userKey, next,
                [st EXCEPT !.filters[userKey] = next])

\* app.post('/api/models/seen'): the names are kept as a sorted list without
\* repetitions, here a set
PostSeen(cfg, st, req) ==
  LET model == Trim(req.model) IN
  IF ~requireToken(cfg, req.auth) THEN Reply(401, FALSE, "", NoFilters, st)
  ELSE IF model = <<>> THEN Reply(200, TRUE, "", NoFilters, st)
  ELSE Reply(200, TRUE, "", NoFilters, [st EXCEPT !.models = @ \cup {model}])

\* ------------------------------------------------- PUT bodies on their own
\* Any sequence of PUT /api/filters requests for one user key, with no token
\* configured, over bodies whose filters field is absent, null or an object
\* with each field absent, of the wrong type, out of range or well-formed.
\* History: whether the last body had a number that was replaced (fixed) and
\* whether its model list was changed (cut).
TabInputs ==
  {Undefined, Text(<<"s", "a", "l", "e">>), Text(<<"R", "E", "N", "T">>),
   Text(<<"x">>)}
MinInputs == {Undefined, JsNull, Num(-1), Num(1), StrOf(Num(2)), StrOf(NaN)}
MaxInputs == {Undefined, Num(-1), Num(1), StrOf(Num(2))}
NameInputs == {<<" ">>, <<" ", "a", " ">>}
ModelInputs ==
  {Undefined} \cup
  {ArrayOf(e) : e \in UNION {[1..n -> NameInputs] : n \in 0..(ModelsCap + 1)}}
PutBodies ==
  {Undefined, JsNull} \cup
  {FiltersBody(t, lo, hi, ms) :
     t \in TabInputs, lo \in MinInputs, hi \in MaxInputs, ms \in ModelInputs}

OpenBackend == [token |-> FALSE, bot |-> FALSE]
PutRequest(body) ==
  [init |-> InitNone, auth |-> "none", key |-> "missing", filters |-> body,
   model |-> <<>>]

PutCall(body) ==
  LET r == PutFilters(env, mOut, PutRequest(body))
      given == normalizeFiltersAsGiven(body)
  IN /\ mOut' = r.store
     /\ mIn' = [status |-> r.status,
                fixed |-> <<given.minTon, given.maxTon>>
                            # <<r.filters.minTon, r.filters.maxTon>>,
                cut |-> given.models # r.filters.models]
     /\ UNCHANGED <<now, seen, gateVars, watch, salesVars, env, proc, reports,
                    connVars, pipeVars>>

PutInit ==
  /\ FreshCaches
  /\ NoHistory
  /\ env = OpenBackend
  /\ proc = Running
  /\ mIn = [status |-> 0, fixed |-> FALSE, cut |-> FALSE]
  /\ mOut = EmptyStore
  /\ watch = <<"M1">>
  /\ socks = <<>>
  /\ timers = <<>>
  /\ fails = 0
  /\ attempts = 0

PutNext == \E body \in PutBodies : PutCall(body)

SpecPut == PutInit /\ [][PutNext]_vars

\* ------------------------------------------------ the backend's requests
\* Any sequence of GET and PUT /api/filters and POST /api/models/seen
\* requests, under each configuration, with every combination of init data,
\* authorization header and supplied user key.  History: the last exchange,
\* with whether it changed the stores (changed), the user keys whose record
\* it changed (touched) and whether the same request
\* with any other supplied user key would have had the same answer and left
\* the same stores (same).
SaleBody ==
  FiltersBody(Text(<<"s", "a", "l", "e">>), Num(1), Num(2), ArrayOf(<<<<"a">>>>))
RequestBodies == {Undefined, SaleBody}
SeenBodies == {<<>>, <<" ", "a">>}
PutRequests ==
  [init : InitDatas, auth : Auths, key : SuppliedKeys, filters : RequestBodies,
   model : {<<>>}]
GetRequests ==
  [init : InitDatas, auth : Auths, key : SuppliedKeys, filters : {Undefined},
   model : {<<>>}]
SeenRequests ==
  [init : {InitNone}, auth : Auths, key : {"missing"}, filters : {Undefined},
   model : SeenBodies]
NoExchange ==
  [method |-> "none", init |-> InitNone, auth |-> "none", key |-> "missing",
   status |-> 0, userKey |-> "", changed |-> FALSE, touched |-> {},
   same |-> TRUE]
Exchange(method, req, r, others) ==
  [method |-> method, init |-> req.init, auth |-> req.auth, key |-> req.key,
   status |-> r.status, userKey |-> r.userKey, changed |-> r.store # mOut,
   touched |-> {u \in UserKeys : r.store.filters[u] # mOut.filters[u]},
   same |-> \A o \in others : o = r]

BackendGet(req, mongo) ==
  LET r == GetFilters(env, mOut, req, mongo) IN
  /\ mOut' = r.store
  /\ mIn' = Exchange("GET", req, r,
                     {GetFilters(env, mOut, [req EXCEPT !.key = k], mongo) :
                        k \in SuppliedKeys})
  /\ UNCHANGED <<now, seen, gateVars, watch, salesVars, env, proc, reports,
                 connVars, pipeVars>>

BackendPut(req) ==
  LET r == PutFilters(env, mOut, req) IN
  /\ mOut' = r.store
  /\ mIn' = Exchange("PUT", req, r,
                     {PutFilters(env, mOut, [req EXCEPT !.key = k]) :
                        k \in SuppliedKeys})
  /\ UNCHANGED <<now, seen, gateVars, watch, salesVars, env, proc, reports,
                 connVars, pipeVars>>

BackendPost(req) ==
  LET r == PostSeen(env, mOut, req) IN
  /\ mOut' = r.store
  /\ mIn' = Exchange("POST", req, r, {r})
  /\ UNCHANGED <<now, seen, gateVars, watch, salesVars, env, proc, reports,
                 connVars, pipeVars>>

BackendInit ==
  /\ FreshCaches
  /\ NoHistory
  /\ env \in BackendConfigs
  /\ proc = Running
  /\ mIn = NoExchange
  /\ mOut = EmptyStore
  /\ watch = <<"M1">>
  /\ socks = <<>>
  /\ timers = <<>>
  /\ fails = 0
  /\ attempts = 0

BackendNext ==
  \/ \E req \in GetRequests, mongo \in BOOLEAN : BackendGet(req, mongo)
  \/ \E req \in PutRequests : BackendPut(req)
  \/ \E req \in SeenRequests : BackendPost(req)

SpecBackend == BackendInit /\ [][BackendNext]_vars

\* ------------------------------------------------------------ the mini-app
\* App.tsx from mount on, with a user who edits nothing, against the backend
\* above.  ui: the state tab, min, max and selectedModels as a filters value.
\* load: the initial GET ("sent", "answered" once the backend or the network
\* has answered, "done" once the promise chain has run).  timer: the values
\* the pending save timer's closure holds.  puts: the PUT bodies in flight.
\* History: the store at mount (before), what the GET was answered with
\* (loaded) and the values of every save issued (sent).
NoTimer == [tab |-> "none", minTon |-> NaN, maxTon |-> NaN, models |-> <<>>]
Unanswered == [tab |-> "unanswered", minTon |-> NaN, maxTon |-> NaN, models |-> <<>>]
\* useState('listing'), useState(0), useState(5000), useState(new Set())
AppDefaults ==
  [tab |-> "listing", minTon |-> Num(0), maxTon |-> Num(5000), models |-> <<>>]
Unmounted ==
  [pc |-> "unmounted", tg |-> FALSE, ui |-> AppDefaults, load |-> "none",
   resp |-> NoFilters, timer |-> NoTimer, puts |-> <<>>, before |-> EmptyStore,
   loaded |-> Unanswered, sent |-> {}]

TabText(t) ==
  CASE t = "sale" -> <<"s", "a", "l", "e">>
    [] t = "rent" -> <<"r", "e", "n", "t">>
    [] OTHER -> <<"l", "i", "s", "t", "i", "n", "g">>
\* Array.from(new Set(models).values()): the first occurrence of each name
RECURSIVE Distinct(_)
Distinct(ms) ==
  IF ms = <<>> THEN <<>>
  ELSE LET front == Distinct(SubSeq(ms, 1, Len(ms) - 1))
           m == ms[Len(ms)]
       IN IF \E i \in 1..Len(front) : front[i] = m THEN front
          ELSE Append(front, m)

\* the requests of the app: with init data and no userKey in the query of the
\* GET when Telegram supplies init data, else with the userKey 'default'
AppGet(a) ==
  [init |-> IF a.tg THEN [v |-> "ok", id |-> "7"] ELSE InitNone,
   auth |-> "none", key |-> "missing", filters |-> Undefined, model |-> <<>>]
AppPut(a, f) ==
  [init |-> IF a.tg THEN [v |-> "ok", id |-> "7"] ELSE InitNone,
   auth |-> "none", key |-> IF a.tg THEN "7" ELSE "missing",
   filters |-> FiltersBody(Text(TabText(f.tab)), f.minTon, f.maxTon,
                           ArrayOf(f.models)),
   model |-> <<>>]

\* the two effects that run at mount: the GET is sent, and scheduleSave()
\* starts the 250 ms timer over the initial state
AppMount ==
  /\ sale.pc = "unmounted"
  /\ sale' = [sale EXCEPT !.pc = "mounted", !.load = "sent", !.timer = sale.ui,
                          !.before = mOut]
  /\ UNCHANGED <<now, seen, gateVars, matchVars, watch, nftModelCache,
                 salesPrices, bootVars, reports, connVars, pipeVars>>

\* the backend answers the GET, or the request fails on the way; r.ok is
\* false for every status but 2xx, and data.filters is absent in { ok: false }
AppServeGet(ok, mongo) ==
  LET r == GetFilters(env, mOut, AppGet(sale), mongo)
      f == IF ok /\ r.status = 200 /\ r.ok THEN r.filters ELSE NoFilters
  IN /\ sale.load = "sent"
     /\ sale' = [sale EXCEPT !.load = "answered", !.resp = f, !.loaded = f]
     /\ UNCHANGED <<now, seen, gateVars, matchVars, watch, nftModelCache,
                    salesPrices, bootVars, reports, connVars, pipeVars>>

\* the promise chain of the load: nothing is set when there are no filters;
\* else the four setters run, selectedModels is a new Set, scheduleSave is a
\* new callback, and its effect clears the timer and starts one over the new
\* state
AppLoaded(a) ==
  IF a.resp = NoFilters THEN [a EXCEPT !.load = "done"]
  ELSE LET ui == [a.resp EXCEPT !.models = Distinct(a.resp.models)] IN
       [a EXCEPT !.load = "done", !.ui = ui, !.timer = ui]

AppLoadResp ==
  /\ sale.load = "answered"
  /\ sale' = AppLoaded(sale)
  /\ UNCHANGED <<now, seen, gateVars, matchVars, watch, nftModelCache,
                 salesPrices, bootVars, reports, connVars, pipeVars>>

\* the save timer fires: a PUT with the values its closure holds
AppSaveTimer ==
  /\ sale.timer # NoTimer
  /\ sale' = [sale EXCEPT !.timer = NoTimer, !.puts = Append(@, sale.timer),
                          !.sent = @ \cup {sale.timer}]
  /\ UNCHANGED <<now, seen, gateVars, matchVars, watch, nftModelCache,
                 salesPrices, bootVars, reports, connVars, pipeVars>>

\* the backend handles one of the PUTs in flight
AppServePut(i) ==
  /\ i \in 1..Len(sale.puts)
  /\ mOut' = PutFilters(env, mOut, AppPut(sale, sale.puts[i])).store
  /\ sale' = [sale EXCEPT !.puts = Without(@, i)]
  /\ UNCHANGED <<now, seen, gateVars, mIn, watch, nftModelCache,
                 salesPrices, bootVars, reports, connVars, pipeVars>>

\* the records the user may have when the app is opened
StoredBefore ==
  {NoFilters, normalizeFilters(Undefined), normalizeFilters(SaleBody)}

AppInit ==
  /\ now = 1
  /\ seen = <<>>
  /\ filtersCache = NoFilters
  /\ filtersCacheAt = 0
  /\ recentSalesCache = [m \in LowerModels |-> 0]
  /\ salesPrices = [m \in LowerModels |-> <<>>]
  /\ nftModelCache = [a \in SaleAssets |-> NoEntry]
  /\ reports = [h \in Hashes |-> 0]
  /\ handlers = [s \in Slots |-> IdleHandler]
  /\ passes = [h \in Hashes |-> [n |-> 0, last |-> 0, gap |-> 0, sent |-> {},
                                 again |-> FALSE]]
  /\ lastDrop = "none"
  /\ NoHistory
  /\ env \in BackendConfigs
  /\ proc = Running
  /\ mIn = NoExchange
  /\ \E f \in StoredBefore :
       mOut = [EmptyStore EXCEPT !.filters["default"] = f, !.filters["7"] = f]
  /\ \E tg \in BOOLEAN : sale = [Unmounted EXCEPT !.tg = tg]
  /\ watch = <<"M1">>
  /\ socks = <<>>
  /\ timers = <<>>
  /\ fails = 0
  /\ attempts = 0

AppNext ==
  \/ AppMount
  \/ \E ok \in BOOLEAN, mongo \in BOOLEAN : AppServeGet(ok, mongo)
  \/ AppLoadResp
  \/ AppSaveTimer
  \/ \E i \in 1..2 : AppServePut(i)

SpecApp == AppInit /\ [][AppNext]_vars

\* ------------------------------------------------------------------ claims
InLoop(hr) == hr.pc \in {"awaitEnrich", "awaitSales", "awaitPhoto", "awaitText"}
Started(hr) == hr.pc # "idle"
\* the listing of the outcome hr.last, as enrichListing returned it
LastListing(hr) == enrichListing(Extracted(hr.hash)[hr.last.i], hr.last.enr)
Dispatched(hr) == hr.last.r \in {"sent", "threw"}

C6_PhotoThenTextFallback ==
  \A s \in Slots :
    LET hr == handlers[s]
        c == hr.call
        d == hr.last.call
    IN /\ hr.pc = "awaitPhoto" =>
            c.img /\ c.photo = "pending" /\ c.text = "none"
       /\ hr.pc = "awaitText" =>
            /\ c.text = "pending"
            /\ (~c.img /\ c.photo = "none") \/ (c.img /\ c.photo = "failed")
       /\ hr.pc \in {"awaitPhoto", "awaitText"} => c.img = CurListing(hr).imageUrl
       /\ Dispatched(hr) =>
            /\ d.photo # "pending" /\ d.text # "pending"
            /\ d.img = LastListing(hr).imageUrl
            /\ (d.text # "none") <=> (~d.img \/ d.photo = "failed")
            /\ d.photo = "ok" => d.text = "none"
            /\ ~(d.photo = "ok" /\ d.text = "ok")
            /\ (hr.last.r = "threw") <=> (d.text = "failed")
            /\ (hr.last.r = "sent") <=> (d.photo = "ok" \/ d.text = "ok")
       /\ (hr.pc = "failed") <=> (Started(hr) /\ hr.last.r = "threw")

\* a call whose photo send failed delivered the alert as text
C6_Witness ==
  \E s \in Slots :
    /\ handlers[s].last.r = "sent"
    /\ handlers[s].last.call = [img |-> TRUE, photo |-> "failed", text |-> "ok"]

\* C7 (as claimed): a failed text send is an error for that alert only: the
\* handler still deals with every remaining listing of the event, and the
\* socket stays up.
C7_TextFailureStopsOnlyThatAlert ==
  \A s \in Slots :
    handlers[s].pc \in {"done", "failed"} /\ handlers[s].last.i # 0 =>
      /\ handlers[s].last.i = Len(Extracted(handlers[s].hash))
      /\ \E i \in 1..Len(socks) : socks[i].st = "open"

\* C8: every close of a socket schedules connect() with the fixed delay,
\* whatever the number of failed attempts before it; connect() is called only
\* by such a timer once its delay has run out; and with timers that run, a
\* listener without a socket, or with one that is closing, gets a new
\* connecting socket.
C8_AlwaysReconnects ==
  /\ [][/\ Len(socks') < Len(socks) => timers' = Append(timers, RECONNECT_DELAY_MS)
        /\ Len(socks') > Len(socks) =>
             \E j \in 1..Len(timers) : timers[j] = 0 /\ timers' = Without(timers, j)
        /\ \A j \in 1..Len(timers') : timers'[j] <= RECONNECT_DELAY_MS]_vars
  /\ (socks = <<>>) ~> (\E i \in 1..Len(socks) : socks[i].st = "connecting")
  /\ (\E i \in 1..Len(socks) : socks[i].st = "closing")
       ~> (\E i \in 1..Len(socks) : socks[i].st = "connecting")

\* a new attempt is under way after MaxFails attempts in a row have failed
C8_Witness ==
  /\ fails = MaxFails
  /\ Len(socks) = 1
  /\ socks[1].st = "connecting"

\* C9: a socket that has opened has sent exactly one subscribe_trace request,
\* with all of WATCH_ACCOUNTS as params, when the list is not empty, and none
\* when it is empty; a socket that has not opened has sent nothing.  Each
\* reconnect makes a new socket, so the request is sent again.
C9_SubscribeOncePerConnection ==
  \A i \in 1..Len(socks) :
    /\ socks[i].st = "connecting" => socks[i].sent = <<>> /\ ~socks[i].opened
    /\ socks[i].st = "open" => socks[i].opened
    /\ socks[i].opened =>
         socks[i].sent = (IF Len(watch) = 0 THEN <<>> ELSE <<watch>>)
    /\ ~socks[i].opened => socks[i].sent = <<>>

\* the socket of a reconnect has opened and subscribed to both watch accounts
C9_Witness ==
  /\ attempts >= 2
  /\ Len(socks) = 1
  /\ socks[1].st = "open"
  /\ socks[1].sent = <<<<"M1", "M2">>>>

\* C10: the delivery of a frame that is not JSON, is not a trace notification,
\* or lacks a hash or an accounts array changes no cache, starts no handler
\* and so no outbound call, and leaves the socket open.
C10_MalformedFrameDropped ==
  [][lastDrop' \in {"badjson", "nottrace", "nohash", "noaccounts"} =>
       /\ seen' = seen
       /\ filtersCache' = filtersCache
       /\ filtersCacheAt' = filtersCacheAt
       /\ recentSalesCache' = recentSalesCache
       /\ handlers' = handlers
       /\ passes' = passes
       /\ socks' = socks
       /\ timers' = timers
       /\ \E i \in 1..Len(socks') : socks'[i].st = "open"]_vars

\* a trace frame without an accounts array was dropped while a handler was
\* awaiting its photo send and the caches held entries
C10_Witness ==
  /\ lastDrop = "noaccounts"
  /\ seen # <<>>
  /\ filtersCacheAt # 0
  /\ \E s \in Slots : handlers[s].pc = "awaitPhoto"

\* C11: the step in which the event fetch of a handler fails ends that
\* handler as a plain return (never as an error), with no outcome logged for
\* any listing, and changes nothing else: no filters fetch is begun and no
\* cache written, no alert is dispatched, the other handlers, the dedup map
\* and the socket stay as they are, so later messages are handled as before.
C11_EventFetchFailureIsSilent ==
  [][lastDrop' = "eventfailed" =>
       \E s \in Slots :
         /\ handlers[s].pc = "awaitEvent"
         /\ handlers' = [handlers EXCEPT ![s] =
                           [IdleHandler EXCEPT !.pc = "done",
                                               !.hash = handlers[s].hash]]
         /\ passes' = passes
         /\ filtersCache' = filtersCache
         /\ filtersCacheAt' = filtersCacheAt
         /\ recentSalesCache' = recentSalesCache
         /\ seen' = seen
         /\ socks' = socks
         /\ \E i \in 1..Len(socks') : socks'[i].st = "open"]_vars

\* the event fetch of hash 1 has just failed while the handler of hash 2,
\* delivered later, is awaiting its text send
C11_Witness ==
  /\ lastDrop = "eventfailed"
  /\ \E s, r \in Slots :
       /\ handlers[s].pc = "done"
       /\ handlers[s].hash = 1
       /\ handlers[s].last = NoOutcome
       /\ passes[1].sent = {}
       /\ handlers[r].hash = 2
       /\ handlers[r].pc = "awaitText"

\* the watch accounts as a set (WATCH_ACCOUNTS)
WatchSet == {watch[j] : j \in 1..Len(watch)}
\* the action types of the world that contain 'nft' in some letter case
NftTypeNames == {"NftItemTransfer", "NFT_PURCHASE"}
\* the positions of the actions of hash h's event that meet both conditions
QualifyingActions(h) ==
  {i \in 1..Len(EventOf(h)) : /\ EventOf(h)[i].type \in NftTypeNames
                              /\ EventOf(h)[i].destination \in WatchSet}

\* C12: the listing a handler is sending an alert for, or has dispatched one
\* for, carries the asset and the destination of an action of its event whose
\* type contains 'nft' in some letter case and whose destination is a watch
\* account; and a handler never has more listings than its event has such
\* actions, so an action failing either condition yields none.
C12_ListingsFromQualifyingActions ==
  \A s \in Slots :
    LET hr == handlers[s] IN
    /\ hr.pc \in {"awaitPhoto", "awaitText"} =>
         \E i \in QualifyingActions(hr.hash) :
           /\ EventOf(hr.hash)[i].nft = CurListing(hr).nftAddress
           /\ EventOf(hr.hash)[i].destination = CurListing(hr).marketAccount
    /\ Dispatched(hr) =>
         \E i \in QualifyingActions(hr.hash) :
           /\ EventOf(hr.hash)[i].nft = LastListing(hr).nftAddress
           /\ EventOf(hr.hash)[i].destination = LastListing(hr).marketAccount
    /\ Started(hr) =>
         /\ hr.idx <= Cardinality(QualifyingActions(hr.hash))
         /\ hr.pc # "awaitEvent" =>
              Len(Extracted(hr.hash)) <= Cardinality(QualifyingActions(hr.hash))

\* the alert for the one qualifying action of hash 2's event, the third after
\* two that fail a condition each, was dispatched; its type is in upper case
C12_Witness ==
  \E s \in Slots :
    /\ handlers[s].hash = 2
    /\ handlers[s].last.r = "sent"
    /\ LastListing(handlers[s]).nftAddress = "A3"
    /\ EventOf(2)[3].type = "NFT_PURCHASE"
    /\ Cardinality(QualifyingActions(2)) = 1

\* C19 (as claimed): normalizing a normalized amount returns it unchanged,
\* for every raw amount: toTon of toTon's result is that result, and so is
\* toTonMaybe of it on the recent-sales path.
C19_NormalizationIdempotent ==
  mOut.done => /\ mOut.twice = mOut.once
               /\ mOut.maybe = mOut.once

\* the filters of the scenario
ScenarioFilters ==
  [tab |-> "listing", minTon |-> Num(0), maxTon |-> Num(10), models |-> <<>>]

\* C20: the action of hash 1's event for asset A1 with raw amount 5 * 10^9,
\* sent to the watched market M1, yields a listing for A1 with price 5 (an
\* amount above 1,000,000 is divided by 10^9, one at or below it is kept);
\* with the scenario's filters the handler never skips that listing: once it
\* is past the matcher it is in sendTelegramAlert (or in the recent-sales
\* lookup before it) or has dispatched the alert.
C20_ScenarioPriceFiveDispatched ==
  /\ EventOf(1)[1] = Act("NftItemTransfer", "M1", "A1", Sci(5, 9))
  /\ toTon(Sci(1, 6)) = Sci(1, 6)
  /\ toTon(Sci(2, 6)) = Sci(2, 0 - 3)
  /\ \A s \in Slots :
       LET hr == handlers[s] IN
       /\ hr.hash = 1 /\ hr.idx >= 1 =>
            /\ Extracted(1)[1].nftAddress = "A1"
            /\ Extracted(1)[1].marketAccount = "M1"
            /\ Extracted(1)[1].priceTon = Num(5)
       /\ hr.hash = 1 /\ hr.filters = ScenarioFilters /\ ~hr.ffail =>
            /\ hr.idx = 1 => hr.pc \in {"awaitEnrich", "awaitSales", "awaitPhoto",
                                        "awaitText", "failed"}
            /\ hr.last.i = 1 => Dispatched(hr)
            /\ hr.idx >= 2 => hr.last.i >= 1 /\ 1 \in passes[1].sent

\* the alert for the listing of price 5 was sent under the scenario's filters
C20_Witness ==
  \E s \in Slots :
    /\ handlers[s].hash = 1
    /\ handlers[s].filters = ScenarioFilters
    /\ ~handlers[s].ffail
    /\ handlers[s].last.i = 1
    /\ handlers[s].last.r = "sent"
    /\ LastListing(handlers[s]).priceTon = Num(5)

\* C17: whatever the deliveries and their timing, the seen map holds at most
\* SEEN_MAX records right after the sweep of a delivery, and at most
\* SEEN_MAX + 1 at any time (the record the delivery then adds); it holds
\* one record for a hash at most.
C17_SeenBounded ==
  /\ Len(seen) <= SEEN_MAX + 1
  /\ Len(gate.swept) <= SEEN_MAX
  /\ Len(seen) <= Len(gate.swept) + 1
  /\ \A i, j \in 1..Len(seen) : seen[i].k = seen[j].k => i = j

\* the map holds SEEN_MAX + 1 records after a delivery whose sweep had to
\* evict one
C17_Witness ==
  /\ Len(seen) = SEEN_MAX + 1
  /\ Len(gate.swept) = SEEN_MAX
  /\ gate.evicted # {}
  /\ gate.passed

\* C18: a sweep that finds more than SEEN_MAX records after the TTL purge
\* removes as many as exceed SEEN_MAX, and a record is removed only together
\* with all records inserted before it; a sweep that finds no more than
\* SEEN_MAX removes none.  The map's order is the order of insertion, so the
\* removed records are the oldest.
C18_EvictsOldestExcess ==
  LET p == gate.purged
      w == gate.swept
      out == {i \in 1..Len(p) : \A j \in 1..Len(w) : w[j] # p[i]}
  IN /\ Len(p) <= SEEN_MAX => w = p
     /\ Len(p) > SEEN_MAX =>
          /\ Cardinality(out) = Len(p) - SEEN_MAX
          /\ Len(w) = SEEN_MAX
          /\ \A i, j \in 1..Len(p) : i < j /\ j \in out => i \in out
          /\ \A j \in 1..Len(w) : \E i \in 1..Len(p) : p[i] = w[j]
     /\ \A i, j \in 1..Len(seen) : i < j => seen[i].ts <= seen[j].ts
     /\ gate.evicted = {p[i].k : i \in out}

\* a sweep evicted the oldest record although it had not expired, and kept
\* the younger ones
C18_Witness ==
  /\ Len(gate.purged) = SEEN_MAX + 1
  /\ gate.purged = gate.before
  /\ gate.evicted = {gate.purged[1].k}
  /\ gate.swept = SubSeq(gate.purged, 2, Len(gate.purged))
  /\ gate.purged[1].ts < gate.purged[2].ts

\* C15 (as claimed): the filters a handler evaluates the matcher against come
\* from a fetch the handler made itself while processing its event, never
\* from a value another event's fetch left behind.
C15_FiltersFetchedPerEvent ==
  \A s \in Slots :
    handlers[s].idx >= 1 => ~handlers[s].fcached

\* C16: a listing whose metadata fetch failed goes on as the extractor made
\* it: the collection check does not discard it, the matcher decides on it
\* (on its price, as it has no model), no recent-sales lookup is made for it,
\* and the alert sent for it is a text alert whose caption has no model, no
\* background and no recent-sales line.
C16_FailedEnrichmentKeepsActionFields ==
  \A s \in Slots :
    LET hr == handlers[s] IN
    /\ hr.pc \in {"awaitSales", "awaitPhoto", "awaitText"} /\ ~hr.enr =>
         /\ CurListing(hr) = Extracted(hr.hash)[hr.idx]
         /\ hr.pc = "awaitText"
         /\ ~hr.call.img
         /\ matchesFilters(Extracted(hr.hash)[hr.idx], hr.filters)
         /\ Caption(CurListing(hr), FALSE) = {"title", "price"}
    /\ hr.last.i # 0 /\ ~hr.last.enr =>
         /\ LastListing(hr) = Extracted(hr.hash)[hr.last.i]
         /\ hr.last.r # "collection"
         /\ Dispatched(hr) <=> matchesFilters(Extracted(hr.hash)[hr.last.i], hr.filters)
         /\ Dispatched(hr) => ~hr.last.call.img /\ hr.last.call.photo = "none"

\* the listing of price 5 was sent as a text alert after its metadata fetch
\* had failed, under filters with a price range
C16_Witness ==
  \E s \in Slots :
    /\ handlers[s].hash = 1
    /\ handlers[s].filters = ScenarioFilters
    /\ handlers[s].last.i = 1
    /\ ~handlers[s].last.enr
    /\ handlers[s].last.r = "sent"
    /\ LastListing(handlers[s]).priceTon = Num(5)
    /\ LastListing(handlers[s]).model = NoModel
    /\ NftItemOf("A1").model # NoModel

\* C13 (as claimed): the metadata cache holds an entry for an asset only
\* after a lookup of it that succeeded, so after a failed lookup the next
\* request for the asset looks it up again; an entry without a model stems
\* from a successful lookup.
C13_FailedLookupNotCached ==
  \A a \in SaleAssets :
    nftModelCache[a].at # 0 => nftModelCache[a].ok

\* The sales of the markets' activity that qualify for model m, by position
\* <<market, event, action>>: a purchase of an asset whose model is m up to
\* case, with an amount that normalizes to a positive number.
SalePositions ==
  {<<k, e, a>> : k \in 1..2, e \in 1..2, a \in 1..3} \cap
  {p \in (1..2) \X (1..2) \X (1..3) :
     /\ p[1] <= Len(SaleMarkets)
     /\ p[2] <= Len(ActivityOf(SaleMarkets[p[1]]))
     /\ p[3] <= Len(ActivityOf(SaleMarkets[p[1]])[p[2]])}
ActAt(p) == ActivityOf(SaleMarkets[p[1]])[p[2]][p[3]]
PriceAt(p) == toTonMaybe(findFirstNumberLike(ActAt(p)))
QualifyingSales(m) ==
  {p \in SalePositions :
     /\ TypeMentionsPurchase(ActAt(p).type)
     /\ ActAt(p).nft # NoAddr
     /\ ~ModelFalsy(NftItemOf(ActAt(p).nft).model)
     /\ ToLowerCase(NftItemOf(ActAt(p).nft).model) = ToLowerCase(m)
     /\ findFirstNumberLike(ActAt(p)) # Undefined
     /\ IsFinite(PriceAt(p))
     /\ Gt(PriceAt(p), Sci(0, 0))}
\* iteration order: market, then event, then action
Earlier(p, q) ==
  \/ p[1] < q[1]
  \/ p[1] = q[1] /\ p[2] < q[2]
  \/ p[1] = q[1] /\ p[2] = q[2] /\ p[3] < q[3]
FirstSales(m) ==
  {p \in QualifyingSales(m) :
     Cardinality({q \in QualifyingSales(m) : Earlier(q, p)}) < RECENT_SALES_MAX}

\* C14: a getRecentSalesForModel call that does not answer from its cache
\* never holds more than 3 prices and is over as soon as it holds 3, so no
\* activity fetch and no asset lookup is issued after the third price; the
\* prices were taken at qualifying sales in iteration order, and when every
\* fetch and lookup the call relied on succeeded, the prices it returns are
\* those of the first 3 qualifying sales in market, event, action order.
C14_FirstThreeSalesThenStop ==
  (sale.pc # "idle" /\ ~sale.hit) =>
    /\ Len(sale.prices) <= RECENT_SALES_MAX
    /\ Len(sale.out) <= RECENT_SALES_MAX
    /\ Len(sale.prices) = RECENT_SALES_MAX => sale.pc = "done"
    /\ Len(sale.from) = Len(sale.prices)
    /\ \A i \in 1..Len(sale.from) :
         /\ sale.from[i] \in QualifyingSales(sale.model)
         /\ sale.prices[i] = PriceAt(sale.from[i])
         /\ \A j \in 1..Len(sale.from) :
              i < j => Earlier(sale.from[i], sale.from[j])
    /\ (sale.pc = "done" /\ sale.clean) =>
         /\ sale.out = sale.prices
         /\ {sale.from[i] : i \in 1..Len(sale.from)} = FirstSales(sale.model)

\* C14 witness: a call for a model with five qualifying sales returned three
\* prices, having stopped inside the first event of the second market.
C14_Witness ==
  /\ sale.pc = "done"
  /\ ~sale.hit
  /\ sale.clean
  /\ Cardinality(QualifyingSales(sale.model)) = 5
  /\ Len(sale.out) = RECENT_SALES_MAX
  /\ sale.mk = 2
  /\ sale.ev = 1

\* C30: a delivery dropped as a duplicate only sweeps the cache: the record
\* of its hash keeps the timestamp of the delivery that was let through and
\* its place among the records that remain, in insertion order.  So a hash
\* is dropped only while that first delivery is at most SEEN_TTL_MS old,
\* however many redeliveries were dropped in between.
C30_DropLeavesRecordAlone ==
  [][(now' = now /\ ~gate'.passed) =>
       /\ seen' = cleanupSeen(seen, now)
       /\ seen' = SelectSeq(seen, LAMBDA e : e.k \in SeenKeys(seen'))
       /\ SeenHas(seen', gate'.hash)
       /\ seen'[SeenTs(seen', gate'.hash)].ts = lastPass[gate'.hash]
       /\ lastPass' = lastPass
       /\ now - lastPass[gate'.hash] <= SEEN_TTL_MS]_vars

\* C30 witness: a hash dropped for the second time in a row, at the last
\* moment of its window, while a record inserted after its own follows it.
C30_Witness ==
  /\ gate.hash # NoHash
  /\ ~gate.passed
  /\ gate.drops >= 2
  /\ now - lastPass[gate.hash] = SEEN_TTL_MS
  /\ Len(seen) >= 2
  /\ seen[1].k = gate.hash

\* a collection id that is present and is not the configured collection
ForeignCollection(l) ==
  /\ GIFTS_COLLECTION # ""
  /\ l.collectionAddress # NoAddr
  /\ l.collectionAddress # GIFTS_COLLECTION

\* C27: with GIFTS_COLLECTION configured, no handler is in the recent-sales
\* lookup or in sendTelegramAlert for a listing whose enriched collection id
\* is present and differs from it, and no such listing was ever dispatched.
C27_ForeignCollectionNeverDispatched ==
  \A s \in Slots :
    /\ handlers[s].pc \in {"awaitSales", "awaitPhoto", "awaitText"}
         => ~ForeignCollection(CurListing(handlers[s]))
    /\ Dispatched(handlers[s]) => ~ForeignCollection(LastListing(handlers[s]))

\* C27 witness: a listing of a foreign collection was discarded by a handler
\* whose filters would have accepted it.
C27_Witness ==
  \E s \in Slots :
    /\ handlers[s].last.r = "collection"
    /\ ForeignCollection(LastListing(handlers[s]))
    /\ matchesFilters(LastListing(handlers[s]), handlers[s].filters)

\* the calls of the loop: enrichment, recent-sales lookup, dispatch
LoopCalls(hr) ==
  {c \in hr.calls : c[1] \in {"enrich", "sales", "photo", "text"}}

\* C25: a handler awaits at most one outbound call at a time, and a call of
\* the loop is always for the listing the loop is at; when the loop is at
\* listing i + 1, listing i was discarded, rejected or its dispatch returned.
\* A handler that has returned or failed awaits nothing.
C25_ListingsOneAfterAnother ==
  \A s \in Slots :
    LET hr == handlers[s] IN
    /\ Cardinality(hr.calls) <= 1
    /\ \A c \in LoopCalls(hr) : c[2] = hr.idx
    /\ hr.pc \in {"idle", "done", "failed"} => hr.calls = {}
    /\ (InLoop(hr) /\ hr.idx > 1) =>
         /\ hr.last.i = hr.idx - 1
         /\ hr.last.r \in {"collection", "nomatch", "sent"}

\* C25 witness: the handler of hash 1 began to enrich its second listing
\* after the dispatch of the first returned, while the handler of another
\* event awaits a call of its own.
C25_Witness ==
  \E s \in Slots, r \in Slots :
    /\ s # r
    /\ handlers[s].idx = 2
    /\ handlers[s].calls = {<<"enrich", 2>>}
    /\ handlers[s].last.r = "sent"
    /\ handlers[r].calls # {}
    /\ handlers[r].hash # handlers[s].hash

\* C28: a seen-model report that settles, with success, a non-success status
\* or an exception, changes nothing but the count of reports outstanding; a
\* handler never waits for a report, and the only error that ends a handler
\* is the one raised by a failed text send.
C28_SeenReportFireAndForget ==
  /\ [](\A s \in Slots :
          handlers[s].pc = "failed" =>
            /\ handlers[s].last.r = "threw"
            /\ handlers[s].last.call.text = "failed")
  /\ [][(\E h \in Hashes : reports'[h] < reports[h]) =>
          UNCHANGED <<handlers, passes, seen, filtersCache, filtersCacheAt,
                      recentSalesCache, socks, timers>>]_vars

\* C28 witness: a listing with a model was dispatched and its handler has
\* returned while the report issued for it has not settled.
C28_Witness ==
  \E s \in Slots :
    /\ handlers[s].pc = "done"
    /\ handlers[s].last.r = "sent"
    /\ \E i \in passes[handlers[s].hash].sent :
         ~ModelFalsy(NftItemOf(Extracted(handlers[s].hash)[i].nftAddress).model)
    /\ reports[handlers[s].hash] > 0

\* the call handler hr awaits can answer
CanAnswer(r) ==
  LET hr == handlers[r] IN
  /\ hr.pc = "awaitEvent" => ENABLED EventResp(r, TRUE)
  /\ hr.pc = "awaitFilters" => ENABLED FiltersResp(r, "ok", NoFilters)
  /\ hr.pc = "awaitEnrich" => ENABLED EnrichResp(r, FALSE)
  /\ hr.pc = "awaitSales" => ENABLED SalesResp(r)
  /\ hr.pc = "awaitPhoto" => ENABLED PhotoResp(r, TRUE)
  /\ hr.pc = "awaitText" => ENABLED TextResp(r, TRUE)

\* C26: while a handler awaits an outbound call, a trace with another hash
\* that arrives on the open connection is taken by the message listener, and
\* every other handler's awaited call can answer: nothing waits for the
\* stalled handler.
C26_StallIsPerEvent ==
  \A s \in Slots :
    InFlight(handlers[s]) =>
      /\ \A h \in Hashes \ {handlers[s].hash} :
           (Len(socks) >= 1 /\ socks[1].st = "open")
             => ENABLED OnMessage(1, WellFormed(h))
      /\ \A r \in Slots \ {s} : CanAnswer(r)

\* C26 witness: the event fetch of hash 1 has not answered since its trace
\* arrived; the trace of hash 2 arrived later (its handler took the second
\* slot because the first was taken), was fetched and its listing dispatched.
C26_Witness ==
  /\ handlers[1].hash = 1
  /\ handlers[1].pc = "awaitEvent"
  /\ passes[1].n = 1
  /\ handlers[2].hash = 2
  /\ passes[2].n = 1
  /\ handlers[2].pc = "done"
  /\ handlers[2].last.r = "sent"

\* C24: when BOT_TOKEN or ALERT_CHAT_ID is missing, the process never gets
\* past its top-level checks: no WebSocket is created, no reconnect timer is
\* set, no trace is handled and no Telegram send is made, by the scanner or
\* by the test alert.
C24_MissingSecretStopsStartup ==
  (~env.token \/ ~env.chat) =>
    /\ proc.st \in {"loading", "stopped"}
    /\ proc.sends = 0
    /\ socks = <<>>
    /\ timers = <<>>
    /\ attempts = 0
    /\ \A s \in Slots : handlers[s] = IdleHandler
    /\ \A h \in Hashes : passes[h].n = 0 /\ passes[h].sent = {}

\* C24 witness: the token is set, the chat id is not, a test alert was asked
\* for, and the process has stopped.
C24_Witness ==
  /\ env.token
  /\ ~env.chat
  /\ env.test
  /\ env.testNft
  /\ proc.st = "stopped"

\* C21: every call of buyUrlFor gives, for a label that contains "getgems"
\* in any letter case, the GetGems item URL of the asset; for a label that
\* contains "mrkt" (and not "getgems", which is tried first), the MRKT item
\* URL; for a label naming none of the three markets, the explorer URL
\* https://tonviewer.com/<asset id>?section=nft; and two calls with the same
\* label and asset id give the same URL.
C21_BuyUrlByLabelAndAsset ==
  /\ \A i \in DOMAIN mOut :
       LET c == mOut[i]
           l == ToLowerCase(c.label)
           gg == Includes(l, ToLowerCase(GetGemsLabel))
           mk == Includes(l, ToLowerCase(MrktLabel))
           fr == Includes(l, ToLowerCase(FragmentLabel))
       IN /\ gg => c.url = <<"https://getgems.io/nft/", c.nft>>
          /\ (mk /\ ~gg) => c.url = <<"https://mrkt.com/item/", c.nft>>
          /\ (~gg /\ ~mk /\ ~fr) =>
               c.url = <<"https://tonviewer.com/", c.nft, "?section=nft">>
  /\ \A i, j \in DOMAIN mOut :
       (mOut[i].label = mOut[j].label /\ mOut[i].nft = mOut[j].nft)
         => mOut[i].url = mOut[j].url

\* C21 witness: with a Fragment template configured, the upper-case label
\* MRKT was asked for twice with the same asset and gave the MRKT URL.
C21_Witness ==
  /\ mIn # <<>>
  /\ Len(mOut) = 2
  /\ mOut[1].label = MrktLabel
  /\ mOut[2].label = MrktLabel
  /\ mOut[1].nft = "A2"
  /\ mOut[2].nft = "A2"
  /\ mOut[2].url = <<"https://mrkt.com/item/", "A2">>

\* Reading an escaped text back: a backslash is dropped and the character
\* after it is kept as it stands.
RECURSIVE StripFrom(_, _)
StripFrom(t, i) ==
  IF i > Len(t) THEN <<>>
  ELSE IF t[i] = "\\" /\ i < Len(t)
  THEN <<t[i + 1]>> \o StripFrom(t, i + 2)
  ELSE <<t[i]>> \o StripFrom(t, i + 1)
\* where character i of s stands in the escaped text
EscapedPos(s, i) == i + Cardinality({k \in 1..i : s[k] \in MarkdownReserved})

\* C22: for every text s of up to MaxLen characters, stripping the
\* backslashes escapeMarkdownV2 put in gives s back; the output is s with
\* exactly one backslash added in front of each reserved character (the
\* backslash itself included) and nothing in front of any other character.
C22_EscapeRoundTrips ==
  mOut.done =>
    LET s == mIn
        t == mOut.text
    IN /\ StripFrom(t, 1) = s
       /\ Len(t) = EscapedPos(s, Len(s))
       /\ \A i \in DOMAIN s :
            /\ t[EscapedPos(s, i)] = s[i]
            /\ s[i] \in MarkdownReserved => t[EscapedPos(s, i) - 1] = "\\"
            /\ EscapedPos(s, i) - (IF i = 1 THEN 0 ELSE EscapedPos(s, i - 1))
                 = (IF s[i] \in MarkdownReserved THEN 2 ELSE 1)

\* C22 witness: a text holding a backslash, a plain letter and an underscore
\* was escaped to five characters.
C22_Witness ==
  /\ mOut.done
  /\ mIn = <<"\\", "a", "_">>
  /\ mOut.text = <<"\\", "\\", "a", "\\", "_">>

\* C23: after a call of enrichListing the listing passed in is as it was
\* before the call.  When the metadata fetch failed the result is that very
\* listing; otherwise it is a new listing with the input's asset id, price,
\* market account and market label, and with model, background, collection
\* and image as the fetched item gives them.
C23_EnrichLeavesItsArgument ==
  mOut.done =>
    LET l == mIn.listing
        x == NftItemOf(l.nftAddress)
    IN /\ mOut.arg = l
       /\ ~mIn.ok => (mOut.same /\ mOut.ret = l)
       /\ mIn.ok =>
            /\ ~mOut.same
            /\ mOut.ret.nftAddress = l.nftAddress
            /\ mOut.ret.priceTon = l.priceTon
            /\ mOut.ret.marketAccount = l.marketAccount
            /\ mOut.ret.marketLabel = l.marketLabel
            /\ mOut.ret.model = x.model
            /\ mOut.ret.background = x.background
            /\ mOut.ret.collectionAddress = x.collectionAddress
            /\ mOut.ret.imageUrl = x.imageUrl

\* C23 witness: a listing of asset A1 at market M1 was enriched with a model
\* and an image, and the listing passed in still has neither.
C23_Witness ==
  /\ mOut.done
  /\ mIn.ok
  /\ mIn.listing.nftAddress = "A1"
  /\ mIn.listing.marketAccount = "M1"
  /\ mOut.ret.model = <<"A">>
  /\ mOut.ret.imageUrl
  /\ mOut.arg.model = NoModel
  /\ ~mOut.arg.imageUrl

\* The values a search of the given kind accepts, in depth-first order: at
\* an object, the values under the candidate keys in list order, then what
\* each value or element holds, in entry order.
Accepted(kind, node, key) ==
  IF ~HasKey(node, key) THEN <<>>
  ELSE LET v == GetKey(node, key) IN
       CASE kind = "string" -> IF v.t = "str" THEN <<v>> ELSE <<>>
         [] kind = "number" ->
              IF toTon(AmountOf(v)) # Undefined THEN <<toTon(AmountOf(v))>>
              ELSE <<>>
         [] kind = "address" ->
              IF extractAddressFromNode(v) # NotFound
              THEN <<extractAddressFromNode(v)>> ELSE <<>>
RECURSIVE DirectAccepted(_, _, _, _)
DirectAccepted(kind, node, keys, j) ==
  IF j > Len(keys) THEN <<>>
  ELSE Accepted(kind, node, keys[j]) \o DirectAccepted(kind, node, keys, j + 1)
RECURSIVE DepthFirst(_, _, _)
RECURSIVE DepthFirstAmong(_, _, _, _)
DepthFirstAmong(kind, vals, i, keys) ==
  IF i > Len(vals) THEN <<>>
  ELSE DepthFirst(kind, vals[i].v, keys)
         \o DepthFirstAmong(kind, vals, i + 1, keys)
DepthFirst(kind, node, keys) ==
  IF node.t = "arr" THEN DepthFirstAmong(kind, node.e, 1, keys)
  ELSE IF node.t = "obj"
  THEN DirectAccepted(kind, node, keys, 1)
         \o DepthFirstAmong(kind, node.e, 1, keys)
  ELSE <<>>
FirstOr(seq, none) == IF seq = <<>> THEN none ELSE seq[1]

\* C29: for every tree and key list, each of the three searches returns the
\* first value it accepts in depth-first order (candidate keys of an object
\* in list order first, then its values in entry order), and undefined
\* when the tree holds none.
C29_FirstInDepthFirstOrder ==
  mOut.done =>
    /\ mOut.str = FirstOr(DepthFirst("string", mIn.tree, mIn.keys), NotFound)
    /\ mOut.num = FirstOr(DepthFirst("number", mIn.tree, mIn.keys), Undefined)
    /\ mOut.addr = FirstOr(DepthFirst("address", mIn.tree, mIn.keys), NotFound)

\* The number and address searches on their own do agree with the
\* depth-first order on every tree.
NumberAndAddressDepthFirst ==
  mOut.done =>
    /\ mOut.num = FirstOr(DepthFirst("number", mIn.tree, mIn.keys), Undefined)
    /\ mOut.addr = FirstOr(DepthFirst("address", mIn.tree, mIn.keys), NotFound)

\* The string search read with only non-empty strings as acceptable: the
\* first non-empty string in depth-first order.
FirstNonEmptyString ==
  mOut.done =>
    mOut.str = FirstOr(SelectSeq(DepthFirst("string", mIn.tree, mIn.keys),
                                 LAMBDA v : v.s # <<>>), NotFound)

\* C31: a getModelByNftAddressCached call has an asset lookup in flight, or
\* has made one, only if it found no entry for the asset or an entry at
\* least NFT_MODEL_CACHE_TTL_MS old; a call that found a younger entry
\* returned that entry's model (or its absence of one) and made no lookup,
\* and no call returned from an entry that old.
C31_LookupOnlyWhenAbsentOrStale ==
  sale.pc \in {"awaitNft", "done"} =>
    LET young == sale.was.at # 0 /\ sale.lnow - sale.was.at < NFT_MODEL_CACHE_TTL_MS
    IN /\ sale.calls > 0 => ~young
       /\ sale.hit => young
       /\ young => /\ sale.pc = "done"
                   /\ sale.hit
                   /\ sale.calls = 0
                   /\ sale.ret = sale.was.model

\* C31 witness: one tick after a lookup that found no model, a call for the
\* same asset returned the cached absence and made no lookup.
C31_Witness ==
  /\ sale.pc = "done"
  /\ sale.hit
  /\ sale.calls = 0
  /\ sale.was.ok
  /\ sale.ret = NoModel
  /\ sale.lnow > sale.was.at

\* C32: a handler that holds filters (its fetch answered with a filters
\* object) never passes a listing whose price is not a finite number to
\* the recent-sales lookup or to sendTelegramAlert: such a listing ends as
\* "nomatch" or is left out by the collection check.
C32_UnknownPriceNeverDispatched ==
  \A s \in Slots :
    LET hr == handlers[s] IN
    hr.filters # NoFilters =>
      /\ (hr.last.i # 0 /\ Dispatched(hr)) => IsFinite(LastListing(hr).priceTon)
      /\ hr.pc \in {"awaitSales", "awaitPhoto", "awaitText"} =>
           IsFinite(CurListing(hr).priceTon)

\* The matcher on its own: with filters present, whatever their range and
\* model list, a price that is undefined or NaN never matches.
UnknownPriceNeverMatches ==
  (mOut = "true" /\ mIn.filters # NoFilters) => IsFinite(mIn.listing.priceTon)

\* C32 witness: with filters whose model list is empty, the listing of
\* unknown price was rejected by the matcher after it had been enriched.
C32_Witness ==
  \E s \in Slots :
    /\ handlers[s].filters # NoFilters
    /\ handlers[s].filters.models = <<>>
    /\ handlers[s].last.i = 2
    /\ handlers[s].last.r = "nomatch"
    /\ LastListing(handlers[s]).priceTon = Undefined
    /\ ~CollectionDiscards(LastListing(handlers[s]))

\* C33: a hash is recorded as seen before its event fetch completes.  As
\* stated: once that fetch has failed, every redelivery of the hash at most
\* SEEN_TTL_MS after the pass is dropped at the gate and starts no second
\* fetch.
C33_FailedFetchNeverRefetchedInWindow ==
  sale.re \notin {"refetched", "refetchedAfterEviction"}

\* C33, amended: the same, for as long as capacity eviction, the sweep of the
\* redelivery itself included, has not removed the record of the pass; the
\* failed fetch itself leaves the record in place.
C33_FailedFetchKeepsRecord ==
  /\ sale.re # "refetched"
  /\ (sale.pc \in {"await", "failed"} /\ ~capEvicted[ObservedHash]
        /\ ~(now - sale.at > SEEN_TTL_MS))
       => SeenHas(PurgeExpired(seen, now), ObservedHash)

\* a redelivery after the failed fetch, still inside the window, was dropped
C33_Witness ==
  /\ sale.pc = "failed"
  /\ sale.re = "dropped"
  /\ gate.hash = ObservedHash
  /\ ~gate.passed
  /\ now > sale.at

\* C34: at any time there is at most one connection that is open or
\* connecting and at most one pending reconnect timer; an error and the
\* close it triggers schedule exactly one reconnect.  In fact exactly one of
\* the two exists: a socket not yet closed, or a pending timer.
C34_OneConnectionOneTimer ==
  /\ Cardinality({i \in 1..Len(socks) : socks[i].st \in {"connecting", "open"}}) <= 1
  /\ Len(timers) <= 1
  /\ Len(socks) + Len(timers) = 1

\* the step in which a socket closed by its error handler emits close adds
\* one timer and leaves no socket
C34_ErrorThenCloseSchedulesOne ==
  [][(\E i \in 1..Len(socks) : socks[i].st = "closing") /\ socks' # socks
       => Len(timers') = Len(timers) + 1 /\ socks' = <<>>]_vars

\* a connection failed before opening, was closed by its error handler, and
\* one reconnect is pending with no socket left
C34_Witness ==
  /\ socks = <<>>
  /\ Len(timers) = 1
  /\ fails > 0

\* C35: with handlers running concurrently, the cached filters are replaced
\* only by the result of a fetch that began no earlier than the fetch whose
\* result is cached: filtersCacheAt, the start time of the fetch that wrote
\* the cache, never decreases.
C35_FiltersCacheNeverGoesBack ==
  [][filtersCacheAt' >= filtersCacheAt]_vars

\* the state before such a step: a fetch still pending that began before the
\* fetch whose result is cached
OlderFetchPending ==
  \E s \in Slots : /\ handlers[s].pc = "awaitFilters"
                   /\ handlers[s].fnow < filtersCacheAt

\* C36: the recent-sales lookup, and with it the activity-history fetches, is
\* made only for a listing that has a model, was not discarded by the
\* collection check and has matched the handler's filters; a listing rejected
\* by the collection check or by the matcher has no such fetch, and a handler
\* awaits at most the one lookup of the listing it is at.
C36_SalesLookupOnlyAfterMatch ==
  \A s \in Slots :
    LET hr == handlers[s] IN
    /\ hr.pc = "awaitSales" =>
         /\ ~ModelFalsy(CurListing(hr).model)
         /\ ~CollectionDiscards(CurListing(hr))
         /\ matchesFilters(CurListing(hr), hr.filters)
    /\ \A c \in hr.calls :
         c[1] = "sales" => /\ hr.pc = "awaitSales"
                           /\ c[2] = hr.idx
    /\ (hr.last.i # 0 /\ hr.last.r \in {"collection", "nomatch"}) =>
         <<"sales", hr.last.i>> \notin hr.calls

\* the matcher has just rejected a listing that has a model whose recent
\* sales are not cached: the loop went on with no lookup
C36_Witness ==
  \E s \in Slots :
    LET hr == handlers[s] IN
    /\ hr.last.i # 0
    /\ hr.last.r = "nomatch"
    /\ ~ModelFalsy(LastListing(hr).model)
    /\ ~SalesFresh(LastListing(hr).model)
    /\ hr.pc = "awaitEnrich"
    /\ \A c \in hr.calls : c[1] # "sales"

\* the lookup itself is reached
SalesLookupAwaited == \E s \in Slots : handlers[s].pc = "awaitSales"

\* C38: after any sequence of PUT /api/filters requests, whatever their
\* bodies, every stored filters value has one of the three tabs, finite
\* minTon and maxTon that are at least 0, and at most 500 model names, each
\* non-empty and with no white space at either end.
C38_StoredFiltersNormalized ==
  \A u \in UserKeys :
    LET f == mOut.filters[u] IN
    f # NoFilters =>
      /\ f.tab \in {"listing", "sale", "rent"}
      /\ IsFinite(f.minTon) /\ f.minTon.v >= 0
      /\ IsFinite(f.maxTon) /\ f.maxTon.v >= 0
      /\ Len(f.models) <= ModelsCap
      /\ \A i \in 1..Len(f.models) :
           /\ f.models[i] # <<>>
           /\ Head(f.models[i]) # " "
           /\ f.models[i][Len(f.models[i])] # " "

\* a body was stored whose numbers had to be replaced and whose model list
\* had to be trimmed, filtered or cut, and the list is at the cap
C38_Witness ==
  /\ mIn.status = 200
  /\ mIn.fixed
  /\ mIn.cut
  /\ Len(mOut.filters["default"].models) = ModelsCap
  /\ mOut.filters["default"].tab = "rent"

\* C39: when a GET or PUT /api/filters request carries init data that
\* verifies and holds a user id, the record read or written is that user
\* id's, whatever userKey the query or body supplies: the same request with
\* any other supplied userKey has the same response and leaves the same
\* stores.
C39_VerifiedUserIgnoresSuppliedKey ==
  (/\ mIn.method \in {"GET", "PUT"}
   /\ Verified(env, mIn.init).ok
   /\ mIn.init.id # "") =>
     /\ mIn.status = 200
     /\ mIn.userKey = mIn.init.id
     /\ mIn.same
     /\ mIn.touched \subseteq {mIn.init.id}

\* a PUT verified as user 7 that supplied user 8's key wrote user 7's record
\* and left user 8 without one
C39_Witness ==
  /\ mIn.method = "PUT"
  /\ Verified(env, mIn.init).ok
  /\ mIn.init.id = "7"
  /\ mIn.key = "8"
  /\ mIn.changed
  /\ mOut.filters["7"] = normalizeFilters(SaleBody)
  /\ mOut.filters["8"] = NoFilters
  /\ env.token
  /\ mIn.auth # "right"

\* C40: with a backend token configured, a PUT /api/filters or POST
\* /api/models/seen request with neither init data that verifies nor the
\* matching bearer token is answered with 401 and changes neither the stored
\* filters nor the stored model names.
C40_UnauthorizedWriteRejected ==
  (/\ mIn.method \in {"PUT", "POST"}
   /\ env.token
   /\ mIn.auth # "right"
   /\ ~(mIn.method = "PUT" /\ Verified(env, mIn.init).ok)) =>
     /\ mIn.status = 401
     /\ ~mIn.changed

\* the part of C40 that holds: such a request changes nothing
UnauthorizedWriteChangesNothing ==
  (/\ mIn.method \in {"PUT", "POST"}
   /\ env.token
   /\ mIn.auth # "right"
   /\ ~(mIn.method = "PUT" /\ Verified(env, mIn.init).ok)) =>
     /\ mIn.status \in {401, 500}
     /\ ~mIn.changed

\* C37: opening the mini-app and editing nothing never changes the stored
\* filters: the store stays as it was at mount, and every save the app
\* issues carries the values its initial load was answered with, however the
\* load's answer and the save timer are ordered and whatever the answer is.
C37_OpenWithoutEditKeepsFilters ==
  /\ sale.pc = "mounted" => mOut = sale.before
  /\ \A f \in sale.sent : f = sale.loaded

\* a save went out before the load was answered
SavedBeforeLoaded ==
  /\ sale.sent # {}
  /\ sale.load = "sent"

\* when the load is answered with the stored filters and the only values
\* saved are those, the store ends as it was
LoadFirstKeepsFilters ==
  (sale.load = "done" /\ sale.resp # NoFilters /\ sale.sent = {sale.loaded}
     /\ sale.loaded = sale.before.filters["default"] /\ sale.puts = <<>>)
    => mOut = sale.before

\* the load failed, the timer saved the initial state, and the record the
\* user had is replaced by the defaults for good: nothing is pending
FiltersLostAfterFailedLoad ==
  /\ sale.pc = "mounted"
  /\ sale.tg /\ env.bot
  /\ sale.before.filters["7"] = normalizeFilters(SaleBody)
  /\ mOut.filters["7"] = AppDefaults
  /\ sale.load = "done"
  /\ sale.loaded = NoFilters
  /\ sale.timer = NoTimer
  /\ sale.puts = <<>>
====
